---- MODULE Spec2Model ----
(***************************************************************************)
(* Chart-sync device session engine (src/src/lib/chartSync/session.ts).    *)
(*                                                                         *)
(* The session table, the seed derivation, the seeded generator and the    *)
(* tick orchestration are translated from session.ts.  The modules that    *)
(* session.ts imports (./types, ./data, ./modes, ./booster, ./safety) are  *)
(* not part of the sources at hand; what the tick needs from them is       *)
(* modelled from the written specification and is marked as such.          *)
(*                                                                         *)
(* Numbers: TLC integers are 32-bit, so the 32-bit hash and the            *)
(* double-precision product of the generator are computed on limbs.        *)
(* Strings are sequences of character codes.                               *)
(***************************************************************************)
EXTENDS Integers, Sequences, FiniteSets, TLC

(***************************************************************************)
(* Strings                                                                 *)
(***************************************************************************)
Colon == <<58>>

Dash == <<45>>

RECURSIVE Decimal(_)
\* String(n) of a non-negative integer, as a template literal prints it.
Decimal(n) ==
  IF n < 10 THEN <<48 + n>> ELSE Decimal(n \div 10) \o <<48 + (n % 10)>>

(***************************************************************************)
(* generateSeed: 32-bit rolling hash                                       *)
(***************************************************************************)
Half == 2 ^ 16

\* ToInt32 of the unsigned value hi * 2^16 + lo.
ToInt32(hi, lo) ==
  IF hi >= 32768 THEN (hi - Half) * Half + lo ELSE hi * Half + lo

\* The two unsigned 16-bit halves of the 32-bit pattern of h.
HiHalf(h) == IF h < 0 THEN Half + (h \div Half) ELSE h \div Half

LoHalf(h) == h % Half

\* One round of the loop: hash = ((hash << 5) - hash) + char; hash & hash.
\* (hash << 5) - hash + char is 31 * hash + char modulo 2^32.
HashStep(hash, char) ==
  LET lo == 31 * LoHalf(hash) + char
      hi == 31 * HiHalf(hash) + (lo \div Half)
  IN  ToInt32(hi % Half, lo % Half)

\* Op applied to the value of e (e is evaluated once, before Op).
Apply(Op(_), e) == CHOOSE r \in {Op(v) : v \in {e}} : TRUE

RECURSIVE HashFrom(_, _, _)
\* The loop from index i on, entered with the given hash.
HashFrom(hash, str, i) ==
  IF i > Len(str) THEN hash
  ELSE Apply(LAMBDA h : HashFrom(h, str, i + 1), HashStep(hash, str[i]))

\* Math.abs of a 32-bit integer (TLC reports an overflow for -2^31, whose
\* absolute value is not a 32-bit integer).
Abs(h) == IF h < 0 THEN 0 - h ELSE h

SeedBucketMs == 60000

SeedString(sessionStateId, tokenMint, startTime) ==
  sessionStateId \o Colon \o tokenMint \o Colon
    \o Decimal(startTime \div SeedBucketMs)

\* Mutant: the start time enters the seed string unbucketed.
generateSeedUnbucketed(sessionStateId, tokenMint, startTime) ==
  Abs(HashFrom(0, sessionStateId \o Colon \o tokenMint \o Colon
                    \o Decimal(startTime), 1))

generateSeed(sessionStateId, tokenMint, startTime) ==
  Abs(HashFrom(0, SeedString(sessionStateId, tokenMint, startTime), 1))

(***************************************************************************)
(* SeededRandom: the generator's state after next()                        *)
(*   this.seed = (this.seed * 1103515245 + 12345) & 0x7fffffff             *)
(* The product and the sum are IEEE doubles: above 2^53 each is rounded    *)
(* to 53 significant bits (ties to even) before the mask is applied.       *)
(***************************************************************************)
Limb == 2 ^ 14

LcgA == 1103515245

LcgC == 12345

Mask31 == 2147483647

\* Little-endian limbs (base 2^14) of a non-negative 32-bit integer.
Limbs(x) == <<x % Limb, (x \div Limb) % Limb, x \div (Limb * Limb)>>

RECURSIVE Carry(_, _, _)
\* Carry propagation over columns cols[i..], with carry-in c.
Carry(cols, i, c) ==
  IF i > Len(cols) THEN <<>>
  ELSE <<(cols[i] + c) % Limb>> \o Carry(cols, i + 1, (cols[i] + c) \div Limb)

\* Exact product of two numbers of three limbs each, on six limbs.
Mul(a, b) ==
  Carry(<<a[1] * b[1],
          a[1] * b[2] + a[2] * b[1],
          a[1] * b[3] + a[2] * b[2] + a[3] * b[1],
          a[2] * b[3] + a[3] * b[2],
          a[3] * b[3],
          0>>, 1, 0)

RECURSIVE Bits(_)
Bits(x) == IF x = 0 THEN 0 ELSE 1 + Bits(x \div 2)

RECURSIVE TopLimb(_, _)
TopLimb(n, i) == IF i = 1 \/ n[i] # 0 THEN i ELSE TopLimb(n, i - 1)

BitLen(n) == LET t == TopLimb(n, Len(n)) IN 14 * (t - 1) + Bits(n[t])

RECURSIVE Pow2(_)
Pow2(e) == IF e = 0 THEN 1 ELSE 2 * Pow2(e - 1)

\* The double nearest to n (round half to even); exact up to 53 bits.
RoundDouble(n) ==
  LET len == BitLen(n) IN
  IF len <= 53 THEN n
  ELSE LET unit == Pow2(len - 53)
           r    == n[1] % unit
           odd  == (n[1] \div unit) % 2 = 1
           up   == 2 * r > unit \/ (2 * r = unit /\ odd)
       IN  Carry([n EXCEPT ![1] = IF up THEN @ - r + unit ELSE @ - r], 1, 0)

AddSmall(n, k) == Carry([n EXCEPT ![1] = @ + k], 1, 0)

\* (double) & 0x7fffffff: the low 31 bits of the integer the double holds.
Low31(n) == (n[3] % 8) * (Limb * Limb) + n[2] * Limb + n[1]

\* Mutant: the product and the sum are exact integers.
LcgNextExact(seed) ==
  Low31(AddSmall(Mul(Limbs(seed), Limbs(LcgA)), LcgC))

LcgNext(seed) ==
  LET Sum(product) == Apply(RoundDouble, AddSmall(product, LcgC))
  IN  Low31(Apply(Sum, Apply(RoundDouble, Mul(Limbs(seed), Limbs(LcgA)))))

RECURSIVE Draw(_, _)
\* The generator's state after k calls of next() from the given seed.
\* next() returns that state divided by 0x7fffffff.
Draw(seed, k) == IF k = 0 THEN seed ELSE Apply(LcgNext, Draw(seed, k - 1))

\* int(2, 4) = floor(2 + (u / 0x7fffffff) * (4 + 1 - 2)) for the draw u.
IntDraw2to4(u) ==
  IF u <= 715827882 THEN 2
  ELSE IF u <= 1431655764 THEN 3
  ELSE IF u < Mask31 THEN 4 ELSE 5

(***************************************************************************)
(* generateModeParams.  A real-valued parameter range(min, max) is held as *)
(* the draw u it is computed from (min + (u / 0x7fffffff) * (max - min));  *)
(* the tag names the range.  weightChop = 1 - weightTrend shares its draw. *)
(***************************************************************************)
generateModeParams(seed, modeId) ==
  LET base == [trendCap    |-> <<"0.003..0.010", Draw(seed, 1)>>,
               chopCap     |-> <<"0.005..0.020", Draw(seed, 2)>>,
               accelCap    |-> <<"0.002..0.008", Draw(seed, 3)>>,
               devCap      |-> <<"0.005..0.020", Draw(seed, 4)>>,
               liqDropCap  |-> <<"0.03..0.15", Draw(seed, 5)>>,
               weightTrend |-> <<"0.5..0.75", Draw(seed, 6)>>,
               weightChop  |-> <<"1-(0.5..0.75)", Draw(seed, 6)>>,
               emaN        |-> IntDraw2to4(Draw(seed, 7))]
  IN  CASE modeId = 2 -> [base EXCEPT !.chopCap = <<"0.004..0.015", Draw(seed, 8)>>]
        [] modeId = 3 -> [base EXCEPT !.accelCap = <<"0.002..0.008", Draw(seed, 8)>>]
        [] modeId = 5 -> [base EXCEPT !.liqDropCap = <<"0.03..0.12", Draw(seed, 8)>>]
        [] OTHER -> base

(***************************************************************************)
(* Constants of ./types and the safety pipeline of ./safety, the buffer    *)
(* update of ./data and the booster of ./booster, as the specification     *)
(* describes them (these modules are imported by session.ts).              *)
(***************************************************************************)
SESSION_DURATION_MS == 600000

BUFFER_SIZE == 3

MAX_SPEED_DELTA == 50

MAX_AMPLITUDE_DELTA == 50

Clamp(v) == IF v < 0 THEN 0 ELSE IF v > 100 THEN 100 ELSE v

\* Move from last toward target by at most maxDelta.
RateLimit(target, last, maxDelta) ==
  IF target > last + maxDelta THEN last + maxDelta
  ELSE IF target < last - maxDelta THEN last - maxDelta
  ELSE target

\* Clamp to [0,100], then rate-limit against the previous values.  The
\* anti-bored floor is not modelled: the tick always passes false for it.
applySafetyPipeline(rawSpeed, rawAmplitude, lastSpeed, lastAmplitude) ==
  LET speed     == RateLimit(Clamp(rawSpeed), lastSpeed, MAX_SPEED_DELTA)
      amplitude == RateLimit(Clamp(rawAmplitude), lastAmplitude, MAX_AMPLITUDE_DELTA)
  IN  [speed |-> speed, amplitude |-> amplitude,
       wasLimited |-> speed # rawSpeed \/ amplitude # rawAmplitude]

\* The command of a safety result.  The specification fixes only that each
\* field lies in [0,100]; the band is taken centred on 50, as the stop
\* command's is, and as wide as the amplitude.
createDeviceCommand(safetyResult) ==
  [speed |-> safetyResult.speed,
   minY  |-> 50 - (safetyResult.amplitude \div 2),
   maxY  |-> 50 + (safetyResult.amplitude \div 2)]

\* Append one sample; drop from the front while over capacity.
updateBuffer(buffer, newSample, capacity) ==
  LET appended == Append(buffer, newSample)
  IN  IF Len(appended) > capacity
      THEN SubSeq(appended, Len(appended) - capacity + 1, Len(appended))
      ELSE appended

\* The intensity (in hundredths) at which the booster becomes active.
BOOSTER_THRESHOLD == 50

\* The booster's fixed pattern: the offsets to speed and amplitude, looked up
\* at step mod pattern length (entry i of the table is BoosterPattern[i + 1]).
BoosterPattern ==
  <<[speed |-> 50, amplitude |-> 50], [speed |-> -50, amplitude |-> -50]>>

PatternLength == Len(BoosterPattern)

\* Dormant below the activation threshold: the inputs and the step come back
\* unchanged; active: the step advances by one and the pattern entry at the
\* new step is applied.
applyBooster(intensity, speed, amplitude, currentStep) ==
  IF intensity < BOOSTER_THRESHOLD
  THEN [speed |-> speed, amplitude |-> amplitude,
        newStep |-> currentStep, wasApplied |-> FALSE]
  ELSE LET newStep == currentStep + 1
           entry   == BoosterPattern[(newStep % PatternLength) + 1]
       IN  [speed |-> speed + entry.speed,
            amplitude |-> amplitude + entry.amplitude,
            newStep |-> newStep, wasApplied |-> TRUE]

\* The modes, as generateModeParams numbers them.
TrendRider == 1

ChopMonster == 2

MomentumBursts == 3

DeviationMode == 4

LiquidityPanic == 5

\* A metric is given by its place against the range its cap is drawn from:
\* "over" is above every cap of that range, "under" below every one.
Exceeds(level, cap) == level = "over"

\* The mode whose trigger holds, by the fixed priority liquidity panic >
\* momentum bursts > chop monster > deviation > trend rider.
selectModeFromMetrics(metrics, modeParams) ==
  IF Exceeds(metrics.liqDrop, modeParams.liqDropCap) THEN LiquidityPanic
  ELSE IF Exceeds(metrics.accel, modeParams.accelCap) THEN MomentumBursts
  ELSE IF Exceeds(metrics.chop, modeParams.chopCap) THEN ChopMonster
  ELSE IF Exceeds(metrics.deviation, modeParams.devCap) THEN DeviationMode
  ELSE TrendRider

(***************************************************************************)
(* Bounds and inputs of the model                                          *)
(***************************************************************************)
MaxObjs == 2

MaxTicks == 1

MaxInflight == 1

MaxBoosterStep == 2

\* "q1"
SessionStateIds == {<<113, 49>>}

\* "So11", "Be22"
TokenMints == {<<83, 111, 49, 49>>, <<66, 101, 50, 50>>}

\* config.startTime; 0 stands for an absent (falsy) start time.
ConfigStartTimes == {0, 60000}

\* The instants at which the clock is observed.
StartNow == 60000 + 30000

ClockTimes ==
  {60000 + SESSION_DURATION_MS - 1, 60000 + SESSION_DURATION_MS}

\* The metrics of a tick, each against its cap.
Metrics(trend, chop, accel, deviation, liqDrop) ==
  [trend |-> trend, chop |-> chop, accel |-> accel, deviation |-> deviation,
   liqDrop |-> liqDrop]

\* What computeMetrics and computeMode produce on a tick: the metrics, and
\* the mode's intensity (in hundredths), speed and amplitude (in range,
\* above range, below range).
PipelineOutputs ==
  {[metrics |-> Metrics("under", "under", "under", "under", "under"),
    intensity |-> 0, speed |-> 40, amplitude |-> 25],
   [metrics |-> Metrics("over", "over", "over", "over", "over"),
    intensity |-> 100, speed |-> 170, amplitude |-> 250],
   [metrics |-> Metrics("under", "over", "under", "under", "under"),
    intensity |-> 0, speed |-> -30, amplitude |-> -5]}

\* Further outputs: one trigger alone, several at once, and an active
\* booster on a speed and amplitude within range.
ModeOutputs ==
  PipelineOutputs \cup
  {[metrics |-> Metrics("under", "under", "under", "over", "under"),
    intensity |-> 0, speed |-> 40, amplitude |-> 25],
   [metrics |-> Metrics("over", "over", "over", "over", "under"),
    intensity |-> 100, speed |-> 50, amplitude |-> 50],
   [metrics |-> Metrics("under", "under", "under", "under", "over"),
    intensity |-> 0, speed |-> 40, amplitude |-> 25]}

\* The steps of the tick that call out of session.ts, in order.
FetchCandles == 1

ComputeMetrics == 2

SelectMode == 3

ComputeMode == 4

ApplyBooster == 5

ApplySafety == 6

CreateCommand == 7

\* 0: no step throws.
ThrowPoints == 0 .. CreateCommand

(***************************************************************************)
(* State                                                                   *)
(***************************************************************************)
VARIABLES
  now,        \* Date.now()
  heap,       \* the ChartSyncSession objects alive, by object identity
  sessions,   \* the session table: sessionId -> object
  inflight,   \* per object, the ticks suspended at await fetchCandles
  nextObj,    \* objects allocated so far + 1
  ticks,      \* ticks resumed so far
  last,       \* the most recent call and what it returned
  device,     \* the device route: lastCommandTime, the sendDeviceCommand
              \* calls suspended, and what was transmitted to the device
  rng,        \* a SeededRandom object: its seed field and the calls of next()
  rate,       \* rate-limit.ts: the buckets map and the last result
  store,      \* state-store.ts: the global store and the snapshot document
  sweep,      \* GET /api/device/tick: the request in progress
  refresh,    \* state-store.ts: listeners, refreshes and builds in flight
  queue       \* the queue routes: Firestore's documents and the requests

\* The variables of the library modules, which the session manager and the
\* device route never touch.
routeVars == <<sweep, refresh, queue>>

libVars == <<rng, rate, store, routeVars>>

vars == <<now, heap, sessions, inflight, nextObj, ticks, last, device, rng,
          rate, store, sweep, refresh, queue>>

NoCommand == [speed |-> -1, minY |-> -1, maxY |-> -1]

StopCommand == [speed |-> 0, minY |-> 50, maxY |-> 50]

\* getSessionStatus of an id the table does not hold.
NoStatus == [exists |-> FALSE, isActive |-> FALSE]

\* op: the call; sid: its session id (or token mint); kind: what it returned
\* ("null", "stop", "suspended" at the fetch, "pipeline", "fallback",
\* "throws", ...); cmd: the DeviceCommand returned; threw: the step that
\* threw; count: the number returned by cleanupExpiredSessions; status: the
\* object returned by getSessionStatus; found: the session objects returned
\* by getSession, getActiveSessionForToken or getAllActiveSessions.
NoCall ==
  [op |-> "none", sid |-> <<>>, kind |-> "none", cmd |-> NoCommand,
   threw |-> 0, count |-> 0, status |-> NoStatus, found |-> {}]

\* lastCommandTime = 0, no call suspended, nothing transmitted.
\* The device route module: lastCommandTime, the sendDeviceCommand calls
\* suspended at an await, the commands put on the wire (in order, with the
\* time of the request), the calls that returned skipped, and the next call.
NoDevice ==
  [lastCommandTime |-> 0, calls |-> {}, sent |-> <<>>, skipped |-> {},
   nextCall |-> 1]

\* new SeededRandom(0), next() not yet called.
NoRandom == [seed |-> 0, draws |-> 0]

\* RateLimitResult
NoResult == [allowed |-> FALSE, remaining |-> 0, retryAfterMs |-> 0]

\* The buckets map is empty and checkRateLimit has not been called.  buckets
\* maps a bucket key to its RateBucket; granted counts, per bucket of the
\* map, the calls answered allowed since the bucket was opened; calls counts
\* the calls; key, limit and result are those of the last call.
NoRate ==
  [buckets |-> <<>>, granted |-> <<>>, calls |-> 0, key |-> "", limit |-> 0,
   result |-> NoResult]

\* createEmptyState(source): the content stands for version, currentToken,
\* currentItem, queue and device together.
createEmptyState(source, t) ==
  [content |-> "empty", source |-> source, updatedAt |-> t]

NoSnapshot == [content |-> "none", source |-> "none", updatedAt |-> 0]

\* getStore() on first use, and the snapshot document of Firestore not yet
\* written.  persistTimer holds the snapshot the pending timer will write
\* (NoSnapshot: no timer pending); writes are the set() calls awaited;
\* document is what Firestore holds; failed: a set() has rejected.
NoStore ==
  [snapshot          |-> createEmptyState("boot", 60000 + 30000),
   persistTimer      |-> NoSnapshot,
   lastPersistedHash |-> "null",
   writes            |-> {},
   document          |-> NoSnapshot,
   failed            |-> FALSE,
   applied           |-> 0]

\* No sweep request in progress.  list: the sessions returned by
\* getAllActiveSessions (each object with its sessionId and endTime); i: the
\* loop's position; ticking: the object whose tick the loop awaits.
NoSweep == [pc |-> "idle", list |-> <<>>, i |-> 0, ticking |-> 0]

\* The listeners that subscribe, and those among them that throw when called.
Listeners == {"L1", "L2"}

ThrowingListeners == {"L1"}

\* What the last refreshStateSnapshot call did: "snapshot" (returned the
\* in-memory snapshot), "joined" (returned the promise in flight) or
\* "started" (started the build named).
NoRefreshResult == [kind |-> "none", force |-> FALSE, build |-> 0]

\* The store's listeners (in insertion order), refreshPromise (the build it
\* resolves with, 0: null) and lastRefreshAt; the builds in flight, each with
\* the Date.now() of its start; and the calls each listener has received.
NoRefresh ==
  [listeners      |-> <<>>,
   delivered      |-> [l \in Listeners |-> 0],
   refreshPromise |-> 0,
   lastRefreshAt  |-> 0,
   builds         |-> {},
   nextBuild      |-> 1,
   result         |-> NoRefreshResult]

\* The queue items and the payment signatures of the requests.
QueueItems == {"itemX", "itemY"}

Signatures == {"sig1", "sig2"}

\* settings/currentToken holding the default token, or not yet written:
\* queueItemId and expiresAt are null (0).
NoCurrent == [queueItemId |-> "null", expiresAt |-> 0]

\* Firestore and the queue requests in progress.  items: the queue
\* collection by position; current: settings/currentToken; procs: the
\* process requests suspended at an await, with what they have read; became,
\* stops, starts: per item, the times it was written as current and a device
\* session stop or start was requested for it; writes: the Firestore writes
\* and device requests of process calls so far; adds: the add requests
\* suspended at an await; logged: the signatures of the transactions
\* logged; queued: per signature, the calls of addToQueueAdmin; answer: what
\* the last add request that returned was answered.
NoQueue ==
  [items    |-> <<>>,
   current  |-> NoCurrent,
   procs    |-> {},
   nextProc |-> 1,
   became   |-> [i \in QueueItems |-> 0],
   stops    |-> [i \in QueueItems |-> 0],
   starts   |-> [i \in QueueItems |-> 0],
   added    |-> {},
   adds     |-> {},
   nextAdd  |-> 1,
   logged   |-> {},
   queued   |-> [g \in Signatures |-> 0],
   answer   |-> [signature |-> "none", error |-> "none"]]

Init ==
  /\ now = StartNow
  /\ heap = <<>>
  /\ sessions = <<>>
  /\ inflight = <<>>
  /\ nextObj = 1
  /\ ticks = 0
  /\ last = NoCall
  /\ device = NoDevice
  /\ rng = NoRandom
  /\ rate = NoRate
  /\ store = NoStore
  /\ sweep = NoSweep
  /\ refresh = NoRefresh
  /\ queue = NoQueue

\* Objects no longer referenced by the table or by a suspended tick are
\* garbage.
Collect(h, tbl, inf) ==
  LET live == {o \in DOMAIN h : (\E k \in DOMAIN tbl : tbl[k] = o) \/ inf[o] > 0}
  IN  [o \in live |-> h[o]]

RestrictTo(inf, h) == [o \in DOMAIN h |-> inf[o]]

(***************************************************************************)
(* createSession                                                           *)
(***************************************************************************)
SessionIdOf(sessionStateId, startTime) ==
  sessionStateId \o Dash \o Decimal(startTime)

NewSession(sessionStateId, tokenMint, startTime) ==
  LET seed == generateSeed(sessionStateId, tokenMint, startTime) IN
  [sessionId     |-> SessionIdOf(sessionStateId, startTime),
   tokenMint     |-> tokenMint,
   startTime     |-> startTime,
   endTime       |-> startTime + SESSION_DURATION_MS,
   modeId        |-> 1,
   modeParams    |-> Apply(LAMBDA v : generateModeParams(v, 1), seed),
   seed          |-> seed,
   lastSpeed     |-> 40,
   lastAmplitude |-> 25,
   boosterStep   |-> 0,
   candleBuffer  |-> <<>>,
   isActive      |-> TRUE]

\* The start times a session of the model can have.
StartTimes == (ConfigStartTimes \ {0}) \cup {StartNow} \cup ClockTimes

\* NewSession on every input of the model, computed once.
NewSessions ==
  {<<<<s, m, t>>, NewSession(s, m, t)>> :
     s \in SessionStateIds, m \in TokenMints, t \in StartTimes}

NewSessionOf(sessionStateId, tokenMint, startTime) ==
  (CHOOSE e \in NewSessions : e[1] = <<sessionStateId, tokenMint, startTime>>)[2]

\* const startTime = config.startTime || Date.now()
StartTimeOf(configStartTime, t) ==
  IF configStartTime = 0 THEN t ELSE configStartTime

RegisterSession(sessionStateId, tokenMint, configStartTime) ==
  LET startTime == StartTimeOf(configStartTime, now)
      session   == NewSessionOf(sessionStateId, tokenMint, startTime)
      sid       == session.sessionId
      tbl       == [k \in DOMAIN sessions \cup {sid} |->
                      IF k = sid THEN nextObj ELSE sessions[k]]
      h         == [o \in DOMAIN heap \cup {nextObj} |->
                      IF o = nextObj THEN session ELSE heap[o]]
      inf       == [o \in DOMAIN heap \cup {nextObj} |->
                      IF o = nextObj THEN 0 ELSE inflight[o]]
  IN  /\ sessions' = tbl
      /\ heap' = Collect(h, tbl, inf)
      /\ inflight' = RestrictTo(inf, heap')
      /\ nextObj' = nextObj + 1
      /\ last' = [NoCall EXCEPT !.op = "createSession", !.sid = sid,
                                !.kind = "session"]
      /\ UNCHANGED <<now, ticks>>

\* Mutant: a session is not created while the token has an active one.
createSessionUnlessActive(sessionStateId, tokenMint, configStartTime) ==
  IF \E k \in DOMAIN sessions :
       /\ heap[sessions[k]].tokenMint = tokenMint
       /\ heap[sessions[k]].isActive
  THEN /\ last' = [NoCall EXCEPT !.op = "createSession", !.kind = "rejected"]
       /\ UNCHANGED <<now, heap, sessions, inflight, nextObj, ticks>>
  ELSE RegisterSession(sessionStateId, tokenMint, configStartTime)

createSession(sessionStateId, tokenMint, configStartTime) ==
  RegisterSession(sessionStateId, tokenMint, configStartTime)

(***************************************************************************)
(* isSessionExpired, endSession                                            *)
(***************************************************************************)
\* Mutant: a session is still live at the instant now = endTime.
isSessionExpiredStrict(session, t) == t > session.endTime

isSessionExpired(session, t) == t >= session.endTime

\* Mutant: endSession also clears the end time.
EndSessionInCleared(h, tbl, sid) ==
  IF sid \in DOMAIN tbl
  THEN [h EXCEPT ![tbl[sid]].isActive = FALSE, ![tbl[sid]].endTime = 0]
  ELSE h

\* Mutant: endSession leaves the flag as it is.
EndSessionInKept(h, tbl, sid) == h

\* The heap after endSession(sid) on table tbl.
EndSessionIn(h, tbl, sid) ==
  IF sid \in DOMAIN tbl
  THEN [h EXCEPT ![tbl[sid]].isActive = FALSE]
  ELSE h

endSession(sid) ==
  /\ heap' = EndSessionIn(heap, sessions, sid)
  /\ last' = [NoCall EXCEPT !.op = "endSession", !.sid = sid, !.kind = "void"]
  /\ UNCHANGED <<now, sessions, inflight, nextObj, ticks>>

(***************************************************************************)
(* processSessionTick, up to await fetchCandles                            *)
(***************************************************************************)
RECURSIVE SumOver(_, _)
SumOver(inf, S) ==
  IF S = {} THEN 0
  ELSE LET o == CHOOSE e \in S : TRUE IN inf[o] + SumOver(inf, S \ {o})

InflightTotal(inf) == SumOver(inf, DOMAIN inf)

\* Mutant: an id the table does not hold is answered like an expired session.
TickCallKindUnknownStops(sid) ==
  IF sid \notin DOMAIN sessions THEN "stop"
  ELSE IF isSessionExpired(heap[sessions[sid]], now) THEN "stop"
  ELSE "suspended"

\* What the call does before it first awaits: "null" (unknown id), "stop"
\* (expired) or "suspended" (awaiting the fetch).
TickCallKind(sid) ==
  IF sid \notin DOMAIN sessions THEN "null"
  ELSE IF isSessionExpired(heap[sessions[sid]], now) THEN "stop"
  ELSE "suspended"

processSessionTickCall(sid) ==
  LET kind == TickCallKind(sid) IN
  /\ heap' = IF kind = "stop" THEN EndSessionIn(heap, sessions, sid) ELSE heap
  /\ inflight' = IF kind = "suspended"
                 THEN [inflight EXCEPT ![sessions[sid]] = @ + 1]
                 ELSE inflight
  /\ last' = [NoCall EXCEPT !.op = "tickCall", !.sid = sid, !.kind = kind,
                !.cmd = IF kind = "stop" THEN StopCommand ELSE NoCommand]
  /\ UNCHANGED <<now, sessions, nextObj, ticks>>

(***************************************************************************)
(* processSessionTick, from the resumption after fetchCandles to return    *)
(***************************************************************************)
\* Mutant: the fetch is awaited outside the try block.
TryCoversAfterFetch(step) == step # FetchCandles

\* The try block spans every step of the tick.
TryCovers(step) == TRUE

\* Step has returned (not thrown, and no earlier step has thrown).
Completed(step, throwAt) == throwAt = 0 \/ throwAt > step

Max(a, b) == IF a >= b THEN a ELSE b

\* Mutant: no floor under the degraded speed.
FallbackCommandNoFloor(session) ==
  [speed |-> session.lastSpeed - 10, minY |-> 40, maxY |-> 60]

\* Mutant: the degraded speed is raised, not lowered, from the last speed.
FallbackCommandRaised(session) ==
  [speed |-> Max(20, session.lastSpeed + 10), minY |-> 40, maxY |-> 60]

\* The catch block's command.
FallbackCommand(session) ==
  [speed |-> Max(20, session.lastSpeed - 10), minY |-> 40, maxY |-> 60]

\* Mutant: every fetched candle is appended, with no capacity.
TickBufferAll(buffer, newCandles) == buffer \o newCandles

\* Mutant: an empty response empties the buffer.
TickBufferEmptyClears(buffer, newCandles) ==
  IF Len(newCandles) > 0
  THEN updateBuffer(buffer, newCandles[1], BUFFER_SIZE)
  ELSE <<>>

\* if (newCandles.length > 0) candleBuffer = updateBuffer(.., newCandles[0], ..)
TickBuffer(buffer, newCandles) ==
  IF Len(newCandles) > 0
  THEN updateBuffer(buffer, newCandles[1], BUFFER_SIZE)
  ELSE buffer

\* Mutant: a specialised mode, once selected, is kept.
SelectModeStepSticky(session, out) ==
  IF session.modeId # TrendRider THEN session.modeId
  ELSE selectModeFromMetrics(out.metrics, session.modeParams)

\* Step 3: selectModeFromMetrics(metrics, session.modeParams).
SelectModeStep(session, out) ==
  selectModeFromMetrics(out.metrics, session.modeParams)

\* Mutant: the mode's amplitude and speed are passed in each other's place.
BoosterStepSwapped(session, out) ==
  applyBooster(out.intensity, out.amplitude, out.speed, session.boosterStep)

\* Step 5: applyBooster on the mode's intensity, speed and amplitude and the
\* session's booster step.
BoosterStep(session, out) ==
  applyBooster(out.intensity, out.speed, out.amplitude, session.boosterStep)

\* Mutant: the new step is not written back to the session.
PersistBoosterStepDropped(session, boosterResult) == session

\* session.boosterStep = boosterResult.newStep
PersistBoosterStep(session, boosterResult) ==
  [session EXCEPT !.boosterStep = boosterResult.newStep]

\* Mutant: the speed and amplitude of the session's creation are passed as
\* the previous ones.
SafetyStepInitial(session, boosterResult) ==
  applySafetyPipeline(boosterResult.speed, boosterResult.amplitude, 40, 25)

\* Mutant: the previous amplitude and speed are passed in each other's place.
SafetyStepSwapped(session, boosterResult) ==
  applySafetyPipeline(boosterResult.speed, boosterResult.amplitude,
                      session.lastAmplitude, session.lastSpeed)

\* Step 6: the safety pipeline on the booster's output and the session's
\* previous speed and amplitude.
SafetyStep(session, boosterResult) ==
  applySafetyPipeline(boosterResult.speed, boosterResult.amplitude,
                      session.lastSpeed, session.lastAmplitude)

\* Mutant: the booster's raw speed and amplitude are persisted.
PersistRaw(session, safetyResult, boosterResult) ==
  [session EXCEPT !.lastSpeed = boosterResult.speed,
                  !.lastAmplitude = boosterResult.amplitude]

\* Mutant: a tick that persists its result marks the session active.
PersistRevives(session, safetyResult, boosterResult) ==
  [session EXCEPT !.lastSpeed = safetyResult.speed,
                  !.lastAmplitude = safetyResult.amplitude,
                  !.isActive = TRUE]

\* Step 7: session.lastSpeed / lastAmplitude = safetyResult's.
Persist(session, safetyResult, boosterResult) ==
  [session EXCEPT !.lastSpeed = safetyResult.speed,
                  !.lastAmplitude = safetyResult.amplitude]

\* The session after the body of the try block, when the fetch returned
\* newCandles (unless it threw), the metrics and the mode engine produced
\* out, and step throwAt threw (0: none).
TickSession(session, newCandles, out, throwAt) ==
  LET s1 == IF Completed(FetchCandles, throwAt)
            THEN [session EXCEPT !.candleBuffer = TickBuffer(@, newCandles)]
            ELSE session
      s3 == IF Completed(SelectMode, throwAt)
            THEN [s1 EXCEPT !.modeId = SelectModeStep(s1, out)] ELSE s1
      boosterResult == BoosterStep(s3, out)
      s5 == IF Completed(ApplyBooster, throwAt)
            THEN PersistBoosterStep(s3, boosterResult) ELSE s3
  IN  IF Completed(ApplySafety, throwAt)
      THEN Persist(s5, SafetyStep(s5, boosterResult), boosterResult) ELSE s5

\* Mutant: a rejected fetch is swallowed and the tick goes on to its command.
TickKindFetchSwallowed(throwAt) ==
  IF throwAt = 0 \/ throwAt = FetchCandles THEN "pipeline" ELSE "fallback"

\* What the call returns: the pipeline command, the catch block's command,
\* or the exception itself where no try block covers the throwing step.
TickKind(throwAt) ==
  IF throwAt = 0 THEN "pipeline"
  ELSE IF TryCovers(throwAt) THEN "fallback" ELSE "throws"

\* Mutant: the command is built from the booster's result, before the safety
\* pipeline.
TickCommandUnlimited(session, newCandles, out, throwAt) ==
  IF throwAt = 0
  THEN createDeviceCommand(BoosterStep(session, out))
  ELSE IF TryCovers(throwAt)
       THEN FallbackCommand(TickSession(session, newCandles, out, throwAt))
       ELSE NoCommand

TickCommand(session, newCandles, out, throwAt) ==
  IF throwAt = 0
  THEN createDeviceCommand(SafetyStep(session, BoosterStep(session, out)))
  ELSE IF TryCovers(throwAt)
       THEN FallbackCommand(TickSession(session, newCandles, out, throwAt))
       ELSE NoCommand

\* What fetchCandles may return to the n-th tick resumed: no candle, one, or
\* two.  A candle is named by the tick that fetched it and its index in the
\* response.
FetchResults(n) ==
  {<<>>, <<[tick |-> n, index |-> 0]>>,
   <<[tick |-> n, index |-> 0], [tick |-> n, index |-> 1]>>}

processSessionTickResume(o, newCandles, out, throwAt) ==
  LET session == heap[o]
      post    == TickSession(session, newCandles, out, throwAt)
      inf     == [inflight EXCEPT ![o] = @ - 1]
      h       == [heap EXCEPT ![o] = post]
  IN  /\ inflight[o] > 0
      /\ heap' = Collect(h, sessions, inf)
      /\ inflight' = RestrictTo(inf, heap')
      /\ ticks' = ticks + 1
      /\ last' = [NoCall EXCEPT !.op = "tickReturn", !.sid = session.sessionId,
                    !.kind = TickKind(throwAt),
                    !.cmd = TickCommand(session, newCandles, out, throwAt),
                    !.threw = throwAt]
      /\ UNCHANGED <<now, sessions, nextObj>>

(***************************************************************************)
(* cleanupExpiredSessions                                                  *)
(***************************************************************************)
\* Mutant: only expiry removes a session.
RemovableExpired(session, t) == isSessionExpired(session, t)

Removable(session, t) == ~session.isActive \/ isSessionExpired(session, t)

cleanupExpiredSessions ==
  LET gone == {k \in DOMAIN sessions : Removable(heap[sessions[k]], now)}
      tbl  == [k \in DOMAIN sessions \ gone |-> sessions[k]]
  IN  /\ sessions' = tbl
      /\ heap' = Collect(heap, tbl, inflight)
      /\ inflight' = RestrictTo(inflight, heap')
      /\ last' = [NoCall EXCEPT !.op = "cleanup", !.kind = "count",
                                !.count = Cardinality(gone)]
      /\ UNCHANGED <<now, nextObj, ticks>>

(***************************************************************************)
(* The queries: getSession, getActiveSessionForToken, getSessionStatus,    *)
(* getAllActiveSessions                                                    *)
(***************************************************************************)
getSession(sid) ==
  /\ last' = [NoCall EXCEPT
                !.op = "getSession", !.sid = sid,
                !.kind = IF sid \in DOMAIN sessions THEN "session" ELSE "undefined",
                !.found = IF sid \in DOMAIN sessions THEN {sessions[sid]} ELSE {}]
  /\ UNCHANGED <<now, heap, sessions, inflight, nextObj, ticks>>

\* The sessions of the table the loop may return: those of the token whose
\* isActive flag is set (the first one in the table's order is returned).
ActiveForToken(tokenMint) ==
  {sessions[k] : k \in {j \in DOMAIN sessions :
                          /\ heap[sessions[j]].tokenMint = tokenMint
                          /\ heap[sessions[j]].isActive}}

getActiveSessionForToken(tokenMint) ==
  /\ \/ /\ ActiveForToken(tokenMint) = {}
        /\ last' = [NoCall EXCEPT !.op = "getActiveSessionForToken",
                                  !.sid = tokenMint, !.kind = "undefined"]
     \/ \E o \in ActiveForToken(tokenMint) :
          last' = [NoCall EXCEPT !.op = "getActiveSessionForToken",
                                 !.sid = tokenMint, !.kind = "session",
                                 !.found = {o}]
  /\ UNCHANGED <<now, heap, sessions, inflight, nextObj, ticks>>

\* The mode's name is a function of the mode id alone.
getModeName(modeId) == <<"mode", modeId>>

StatusOf(sid) ==
  IF sid \notin DOMAIN sessions THEN NoStatus
  ELSE LET session == heap[sessions[sid]] IN
       [exists      |-> TRUE,
        isActive    |-> session.isActive /\ ~isSessionExpired(session, now),
        elapsed     |-> (now - session.startTime) \div 1000,
        remaining   |-> Max(0, (session.endTime - now) \div 1000),
        mode        |-> getModeName(session.modeId),
        lastCommand |-> [speed |-> session.lastSpeed,
                         amplitude |-> session.lastAmplitude]]

getSessionStatus(sid) ==
  /\ last' = [NoCall EXCEPT !.op = "getSessionStatus", !.sid = sid,
                            !.kind = "status", !.status = StatusOf(sid)]
  /\ UNCHANGED <<now, heap, sessions, inflight, nextObj, ticks>>

\* Mutant: the filter is the isActive flag alone.
AllActiveFlagged ==
  {sessions[k] : k \in {j \in DOMAIN sessions : heap[sessions[j]].isActive}}

AllActive ==
  {sessions[k] : k \in {j \in DOMAIN sessions :
                          /\ heap[sessions[j]].isActive
                          /\ ~isSessionExpired(heap[sessions[j]], now)}}

getAllActiveSessions ==
  /\ last' = [NoCall EXCEPT !.op = "getAllActiveSessions", !.kind = "list",
                            !.found = AllActive]
  /\ UNCHANGED <<now, heap, sessions, inflight, nextObj, ticks>>

(***************************************************************************)
(* Specifications                                                          *)
(*   Spec      the session table: sessions are created, ticked, ended,     *)
(*             swept and expire, with few ticks.                           *)
(*   SpecTicks one session of the table through enough ticks to fill its   *)
(*             candle buffer and evict from it.                            *)
(***************************************************************************)
UnknownId == <<63>>

\* The session ids callers pass: those in the table, and one that is not.
CallerIds == DOMAIN sessions \cup {UnknownId}

CreateSession ==
  /\ nextObj <= MaxObjs
  /\ \E s \in SessionStateIds, m \in TokenMints, t \in ConfigStartTimes :
       createSession(s, m, t)
  /\ UNCHANGED <<device, libVars>>

TickCall ==
  /\ \E sid \in CallerIds :
       /\ TickCallKind(sid) = "suspended" => InflightTotal(inflight) < MaxInflight
       /\ processSessionTickCall(sid)
  /\ UNCHANGED <<device, libVars>>

\* The fetch of a suspended tick settles (throwAt = FetchCandles: it
\* rejects) and the tick runs to its return.
ResumeWith(budget, outs, throws, stepCap) ==
  /\ ticks < budget
  /\ \E o \in DOMAIN heap, out \in outs, throwAt \in throws :
       \E newCandles \in FetchResults(ticks + 1) :
         /\ throwAt = FetchCandles => newCandles = <<>>
         /\ (out.intensity >= BOOSTER_THRESHOLD /\ Completed(ApplyBooster, throwAt))
               => heap[o].boosterStep < stepCap
         /\ processSessionTickResume(o, newCandles, out, throwAt)
  /\ UNCHANGED <<device, libVars>>

ResumeWithin(budget) ==
  ResumeWith(budget, PipelineOutputs, ThrowPoints, MaxBoosterStep)

TickResume == ResumeWithin(MaxTicks)

EndSession == (\E sid \in CallerIds : endSession(sid)) /\ UNCHANGED <<device, libVars>>

Cleanup == cleanupExpiredSessions /\ UNCHANGED <<device, libVars>>

\* Time passes.
Advance ==
  /\ \E t \in ClockTimes : t > now /\ now' = t
  /\ UNCHANGED <<heap, sessions, inflight, nextObj, ticks, last, device, libVars>>

Next ==
  \/ CreateSession
  \/ TickCall
  \/ TickResume
  \/ EndSession
  \/ Cleanup
  \/ Advance

Spec == Init /\ [][Next]_vars

\* Ticks enough to fill the buffer and evict from it.
DeepTicks == BUFFER_SIZE + MaxTicks

CreateOne ==
  /\ nextObj = 1
  /\ \E s \in SessionStateIds : createSession(s, <<83, 111, 49, 49>>, 60000)
  /\ UNCHANGED <<device, libVars>>

DeepResume == ResumeWithin(DeepTicks)

NextTicks ==
  \/ CreateOne
  \/ TickCall
  \/ DeepResume
  \/ EndSession
  \/ Cleanup
  \/ Advance

SpecTicks == Init /\ [][NextTicks]_vars

\* One session through successful ticks: every mode, the booster dormant and
\* active through more than one round of its pattern.
DeepSteps == PatternLength + MaxBoosterStep

ResumeOk == ResumeWith(DeepTicks, ModeOutputs, {0}, DeepSteps)

NextModes ==
  \/ CreateOne
  \/ TickCall
  \/ ResumeOk
  \/ EndSession
  \/ Cleanup
  \/ Advance

SpecModes == Init /\ [][NextModes]_vars

\* One session with ticks called concurrently: every call that reaches the
\* fetch comes before the first fetch settles, so the ticks are all suspended together and resume
\* in either order.
Concurrent == MaxInflight + 1

CallConcurrent ==
  /\ \E sid \in CallerIds :
       /\ TickCallKind(sid) = "suspended"
            => ticks = 0 /\ InflightTotal(inflight) < Concurrent
       /\ processSessionTickCall(sid)
  /\ UNCHANGED <<device, libVars>>

ResumeConcurrent ==
  /\ InflightTotal(inflight) = Concurrent \/ ticks > 0
  /\ ResumeWith(Concurrent, PipelineOutputs, ThrowPoints, DeepSteps)

NextConcurrent ==
  \/ CreateOne
  \/ CallConcurrent
  \/ ResumeConcurrent
  \/ EndSession
  \/ Cleanup
  \/ Advance

SpecConcurrent == Init /\ [][NextConcurrent]_vars

\* ---- The device route: sendDeviceCommand ----

COMMAND_INTERVAL_MS == 60000

\* The time that must have passed since lastCommandTime for a command to go
\* out.
ThrottleMs == COMMAND_INTERVAL_MS - 5000

MaxSends == 3

\* The speeds of the commands: 0 takes the stop request.
CommandSpeeds == {0, 50}

\* sendDeviceCommand up to its first await: the cooldown is tested against
\* lastCommandTime as it is now; a command that passes waits for the cluster
\* url with the time it read.
sendDeviceCommandCall(speed) ==
  LET id == device.nextCall
  IN  IF now - device.lastCommandTime < ThrottleMs
      THEN device' = [device EXCEPT !.nextCall = id + 1,
                                    !.skipped = @ \cup {id}]
      ELSE device' = [device EXCEPT !.nextCall = id + 1,
                        !.calls = @ \cup {[id |-> id, at |-> now,
                                           speed |-> speed, pc |-> "cluster"]}]

\* getClusterUrl resolved: the request to the device is issued.
sendDeviceCommandFetch(call) ==
  device' = [device EXCEPT
               !.calls = (@ \ {call}) \cup {[call EXCEPT !.pc = "fetch"]},
               !.sent = Append(@, [id |-> call.id, at |-> now,
                                   stop |-> call.speed = 0])]

\* getClusterUrl threw: the call ends with nothing sent and lastCommandTime
\* as it was.
sendDeviceCommandThrow(call) ==
  device' = [device EXCEPT !.calls = @ \ {call}]

\* The request settled: lastCommandTime becomes the time the call read at
\* its start, whatever the response.
sendDeviceCommandDone(call) ==
  device' = [device EXCEPT !.calls = @ \ {call},
                           !.lastCommandTime = call.at]

SendDeviceCommand ==
  /\ device.nextCall <= MaxSends
  /\ \E speed \in CommandSpeeds : sendDeviceCommandCall(speed)
  /\ UNCHANGED <<now, heap, sessions, inflight, nextObj, ticks, last, libVars>>

ClusterResolved ==
  /\ \E call \in device.calls :
       call.pc = "cluster" /\ sendDeviceCommandFetch(call)
  /\ UNCHANGED <<now, heap, sessions, inflight, nextObj, ticks, last, libVars>>

\* Mutant: a transmission that fails before the request puts the sessions
\* back to the speed and amplitude of their creation.
ClusterRejectedRollsBack ==
  /\ \E call \in device.calls :
       call.pc = "cluster" /\ sendDeviceCommandThrow(call)
  /\ heap' = [o \in DOMAIN heap |->
               [heap[o] EXCEPT !.lastSpeed = 40, !.lastAmplitude = 25]]
  /\ UNCHANGED <<now, sessions, inflight, nextObj, ticks, last, libVars>>

ClusterRejected ==
  /\ \E call \in device.calls :
       call.pc = "cluster" /\ sendDeviceCommandThrow(call)
  /\ UNCHANGED <<now, heap, sessions, inflight, nextObj, ticks, last, libVars>>

FetchSettled ==
  /\ \E call \in device.calls :
       call.pc = "fetch" /\ sendDeviceCommandDone(call)
  /\ UNCHANGED <<now, heap, sessions, inflight, nextObj, ticks, last, libVars>>

NextDevice ==
  \/ SendDeviceCommand
  \/ ClusterResolved
  \/ ClusterRejected
  \/ FetchSettled
  \/ Advance

SpecDevice == Init /\ [][NextDevice]_vars

\* ---- The session routes: start ----

\* Mutant: the session is created without looking for an active one.
startSessionUnchecked(sessionStateId, tokenMint) ==
  createSession(sessionStateId, tokenMint, 0)

\* action 'start' up to createSession: a token with an active session is
\* answered with it, else a session is created with startTime = Date.now().
\* Nothing is awaited between the lookup and the creation.
startSession(sessionStateId, tokenMint) ==
  IF ActiveForToken(tokenMint) # {}
  THEN /\ \E o \in ActiveForToken(tokenMint) :
            last' = [NoCall EXCEPT !.op = "start", !.sid = tokenMint,
                                   !.kind = "existing", !.found = {o}]
       /\ UNCHANGED <<now, heap, sessions, inflight, nextObj, ticks>>
  ELSE createSession(sessionStateId, tokenMint, 0)

StartSession ==
  /\ nextObj <= MaxObjs + 1
  /\ \E s \in SessionStateIds, m \in TokenMints : startSession(s, m)
  /\ UNCHANGED <<device, libVars>>

NextRoutes ==
  \/ StartSession
  \/ TickCall
  \/ TickResume
  \/ EndSession
  \/ Cleanup
  \/ Advance

SpecRoutes == Init /\ [][NextRoutes]_vars

\* ---- The session routes: a tick and the transmission of its command ----

\* The command a tick returned is handed to sendDeviceCommand.
SendTickCommand ==
  /\ device.nextCall < MaxSends
  /\ last.op \in {"tickCall", "tickReturn"}
  /\ last.cmd # NoCommand
  /\ sendDeviceCommandCall(last.cmd.speed)
  /\ UNCHANGED <<now, heap, sessions, inflight, nextObj, ticks, last, libVars>>

NextTransport ==
  \/ CreateOne
  \/ TickCall
  \/ TickResume
  \/ SendTickCommand
  \/ ClusterResolved
  \/ ClusterRejected
  \/ FetchSettled
  \/ EndSession
  \/ Advance

SpecTransport == Init /\ [][NextTransport]_vars

\* ---- SeededRandom ----

MaxDraws == 8

\* The seeds a generator is constructed with: small ones, the largest whose
\* product with the multiplier is below 2^53, the one that exact integer
\* arithmetic takes to 0x7fffffff, and the largest.
Seeds ==
  {0, 1, 2, 12345, 8162278, 8162279, 230538014, 715827882, 1073741823,
   1431655765, 2147483646, Mask31}

\* next(): this.seed = (this.seed * 1103515245 + 12345) & 0x7fffffff; the
\* value returned is this.seed / 0x7fffffff.
SeededRandomNext ==
  /\ rng.draws < MaxDraws
  /\ rng' = [seed |-> LcgNext(rng.seed), draws |-> rng.draws + 1]
  /\ UNCHANGED <<now, heap, sessions, inflight, nextObj, ticks, last, device,
                 rate, store, routeVars>>

\* new SeededRandom(seed)
InitRandom ==
  /\ rng \in {[seed |-> s, draws |-> 0] : s \in Seeds}
  /\ now = StartNow /\ heap = <<>> /\ sessions = <<>> /\ inflight = <<>>
  /\ nextObj = 1 /\ ticks = 0 /\ last = NoCall /\ device = NoDevice
  /\ rate = NoRate /\ store = NoStore
  /\ sweep = NoSweep /\ refresh = NoRefresh /\ queue = NoQueue

SpecRandom == InitRandom /\ [][SeededRandomNext]_vars

\* ---- rate-limit.ts ----

MaxChecks == 4

RateNamespaces == {"device_session_token"}

RateKeys == {"So11", "Be22"}

\* options.limit and options.windowMs, as numbers a caller may pass.
RateLimits == {0, 1, 2}

RateWindows == {0, 60000}

\* The instants of the calls: the opening of a bucket, just after it, just
\* before its resetAt, at it and after it.
RateTimes ==
  {StartNow + 1, StartNow + 59999, StartNow + 60000, StartNow + 60001}

getBucketKey(namespace, key) == namespace \o ":" \o key

\* Mutant: every bucket is pruned, expired or not.
pruneExpiredBucketsEvery(map, currentTime) == [k \in {} |-> map[k]]

\* The map after pruneExpiredBuckets(currentTime), for buckets and for the
\* count of allowed answers kept beside them.
pruneExpiredBuckets(map, currentTime) ==
  LET kept == {k \in DOMAIN rate.buckets :
                 ~(rate.buckets[k].resetAt <= currentTime)}
  IN  [k \in kept |-> map[k]]

Put(map, k, v) == [j \in DOMAIN map \cup {k} |-> IF j = k THEN v ELSE map[j]]

checkRateLimit(namespace, key, limit, windowMs) ==
  LET currentTime == now
      pruned      == pruneExpiredBuckets(rate.buckets, currentTime)
      granted     == pruneExpiredBuckets(rate.granted, currentTime)
      bucketKey   == getBucketKey(namespace, key)
      opens       == \/ bucketKey \notin DOMAIN pruned
                     \/ pruned[bucketKey].resetAt <= currentTime
      count       == pruned[bucketKey].count + 1
      allowed     == count <= limit
  IN  rate' =
        IF opens
        THEN [buckets |-> Put(pruned, bucketKey,
                              [count |-> 1, resetAt |-> currentTime + windowMs]),
              granted |-> Put(granted, bucketKey, 1),
              calls   |-> rate.calls + 1,
              key     |-> bucketKey,
              limit   |-> limit,
              result  |-> [allowed |-> TRUE,
                           remaining |-> Max(0, limit - 1),
                           retryAfterMs |-> 0]]
        ELSE [buckets |-> [pruned EXCEPT ![bucketKey].count = count],
              granted |-> [granted EXCEPT ![bucketKey] =
                                     IF allowed THEN @ + 1 ELSE @],
              calls   |-> rate.calls + 1,
              key     |-> bucketKey,
              limit   |-> limit,
              result  |-> [allowed |-> allowed,
                           remaining |-> Max(0, limit - count),
                           retryAfterMs |->
                             IF allowed THEN 0
                             ELSE Max(0, pruned[bucketKey].resetAt - currentTime)]]

CheckRateLimit ==
  /\ rate.calls < MaxChecks
  /\ \E namespace \in RateNamespaces, key \in RateKeys,
        limit \in RateLimits, windowMs \in RateWindows :
       checkRateLimit(namespace, key, limit, windowMs)
  /\ UNCHANGED <<now, heap, sessions, inflight, nextObj, ticks, last, device,
                 rng, store, routeVars>>

\* Time passes between the calls.
Elapse ==
  /\ \E t \in RateTimes : t > now /\ now' = t
  /\ UNCHANGED <<heap, sessions, inflight, nextObj, ticks, last, device,
                 libVars>>

NextRate ==
  \/ CheckRateLimit
  \/ Elapse

SpecRate == Init /\ [][NextRate]_vars

\* ---- state-store.ts ----

MaxApplies == 4

\* What buildStateFromFirestore may build: the empty state and two others.
SnapshotContents == {"empty", "A", "B"}

SnapshotSources == {"device_tick", "device_session_start"}

\* JSON.stringify of version, currentToken, currentItem, queue and device:
\* source and updatedAt are left out.
stableSnapshotHash(snapshot) == snapshot.content

\* The store after persistSnapshotDebounced(snapshot): nothing when the hash
\* is the last persisted one, else the pending timer is replaced by one
\* that writes this snapshot.
persistSnapshotDebounced(st, snapshot) ==
  IF st.lastPersistedHash = stableSnapshotHash(snapshot)
  THEN st
  ELSE [st EXCEPT !.persistTimer = snapshot]

applySnapshot(snapshot) ==
  LET currentHash == stableSnapshotHash(store.snapshot)
      nextHash    == stableSnapshotHash(snapshot)
      counted     == [store EXCEPT !.applied = @ + 1]
  IN  store' =
        IF currentHash = nextHash
        THEN [counted EXCEPT !.snapshot.source = snapshot.source,
                             !.snapshot.updatedAt = snapshot.updatedAt]
        ELSE persistSnapshotDebounced([counted EXCEPT !.snapshot = snapshot],
                                      snapshot)

\* A refresh has built a snapshot and applies it.
ApplySnapshot ==
  /\ store.applied < MaxApplies
  /\ \E content \in SnapshotContents, source \in SnapshotSources :
       applySnapshot([content |-> content, source |-> source,
                      updatedAt |-> now])
  /\ UNCHANGED <<now, heap, sessions, inflight, nextObj, ticks, last, device,
                 rng, rate, routeVars>>

\* The persist timer fires: its callback calls set() and awaits it.
PersistTimerFires ==
  /\ store.persistTimer # NoSnapshot
  /\ store' = [store EXCEPT !.persistTimer = NoSnapshot,
                            !.writes = @ \cup {store.persistTimer}]
  /\ UNCHANGED <<now, heap, sessions, inflight, nextObj, ticks, last, device,
                 rng, rate, routeVars>>

\* set() resolves: the document holds the snapshot, and its hash becomes
\* lastPersistedHash.
PersistResolves ==
  /\ \E snapshot \in store.writes :
       store' = [store EXCEPT !.writes = @ \ {snapshot},
                             !.document = snapshot,
                             !.lastPersistedHash = stableSnapshotHash(snapshot)]
  /\ UNCHANGED <<now, heap, sessions, inflight, nextObj, ticks, last, device,
                 rng, rate, routeVars>>

\* set() rejects: the error is logged.
PersistRejects ==
  /\ \E snapshot \in store.writes :
       store' = [store EXCEPT !.writes = @ \ {snapshot}, !.failed = TRUE]
  /\ UNCHANGED <<now, heap, sessions, inflight, nextObj, ticks, last, device,
                 rng, rate, routeVars>>

DEFAULT_PERSIST_DEBOUNCE_MS == 1000

\* Number(process.env.STATE_SNAPSHOT_WRITE_DEBOUNCE_MS || default): unset,
\* not a finite number, or a number (whole ones: Math.floor is the identity
\* on them).
DebounceSettings ==
  {[finite |-> FALSE, value |-> 0]} \cup
  {[finite |-> TRUE, value |-> v] :
     v \in {-1, 0, 499, 500, 501, DEFAULT_PERSIST_DEBOUNCE_MS, 1999, 2000, 2001}}

\* The delay of the persist timer.
persistDebounceMs(setting) ==
  IF ~setting.finite THEN DEFAULT_PERSIST_DEBOUNCE_MS
  ELSE LET floor == Max(500, setting.value)
       IN  IF floor <= 2000 THEN floor ELSE 2000

NextStore ==
  \/ ApplySnapshot
  \/ PersistTimerFires
  \/ PersistResolves
  \/ PersistRejects

SpecStore == Init /\ [][NextStore]_vars

\* The table with its queries.
GetSession == (\E sid \in CallerIds : getSession(sid)) /\ UNCHANGED <<device, libVars>>

GetActiveSessionForToken ==
  (\E m \in TokenMints : getActiveSessionForToken(m)) /\ UNCHANGED <<device, libVars>>

GetSessionStatus ==
  (\E sid \in CallerIds : getSessionStatus(sid)) /\ UNCHANGED <<device, libVars>>

GetAllActiveSessions == getAllActiveSessions /\ UNCHANGED <<device, libVars>>

\* A tick returns its command, or fails at its first step.
QueryResume ==
  ResumeWith(MaxTicks, PipelineOutputs, {0, FetchCandles}, MaxBoosterStep)

NextQueries ==
  \/ CreateSession
  \/ TickCall
  \/ QueryResume
  \/ EndSession
  \/ Cleanup
  \/ Advance
  \/ GetSession
  \/ GetActiveSessionForToken
  \/ GetSessionStatus
  \/ GetAllActiveSessions

SpecQueries == Init /\ [][NextQueries]_vars

\* ---- GET /api/device/tick: the scheduled sweep ----

\* The orders in which a set can be listed.
Orders(S) ==
  {q \in [1..Cardinality(S) -> S] : \A i, j \in DOMAIN q : i # j => q[i] # q[j]}

\* The list the sweep iterates over: object, sessionId and endTime.
Listed(q) ==
  [i \in DOMAIN q |-> [obj |-> q[i], sid |-> heap[q[i]].sessionId,
                       endTime |-> heap[q[i]].endTime]]

SweepList == AllActive

\* const sessions = getAllActiveSessions(); with no session the request
\* returns at once, without cleanup.
SweepStart ==
  /\ sweep.pc = "idle"
  /\ \E q \in Orders(SweepList) :
       sweep' = IF q = <<>> THEN NoSweep
                ELSE [pc |-> "loop", list |-> Listed(q), i |-> 1, ticking |-> 0]
  /\ last' = [NoCall EXCEPT !.op = "sweep", !.kind = "list", !.found = SweepList]
  /\ UNCHANGED <<now, heap, sessions, inflight, nextObj, ticks, device, rng,
                 rate, store, refresh, queue>>

\* One iteration up to its first await: a session found expired is ended
\* and the stop command is sent, any other is ticked.
SweepIterate ==
  /\ sweep.pc = "loop"
  /\ sweep.i <= Len(sweep.list)
  /\ LET session == sweep.list[sweep.i] IN
       IF now >= session.endTime
       THEN /\ heap' = EndSessionIn(heap, sessions, session.sid)
            /\ last' = [NoCall EXCEPT !.op = "sweepExpired", !.sid = session.sid,
                                      !.kind = "stop", !.cmd = StopCommand]
            /\ sweep' = [sweep EXCEPT !.pc = "await"]
            /\ UNCHANGED <<now, sessions, inflight, nextObj, ticks>>
       ELSE /\ processSessionTickCall(session.sid)
            /\ sweep' = IF TickCallKind(session.sid) = "suspended"
                        THEN [sweep EXCEPT !.pc = "tick",
                                           !.ticking = sessions[session.sid]]
                        ELSE [sweep EXCEPT !.pc = "await"]
  /\ UNCHANGED <<device, rng, rate, store, refresh, queue>>

\* The tick of the iteration returns.
SweepTickReturns ==
  /\ sweep.pc = "tick"
  /\ ticks < MaxTicks
  /\ \E out \in PipelineOutputs, throwAt \in {0, FetchCandles} :
       \E newCandles \in FetchResults(ticks + 1) :
         /\ throwAt = FetchCandles => newCandles = <<>>
         /\ (out.intensity >= BOOSTER_THRESHOLD /\ Completed(ApplyBooster, throwAt))
               => heap[sweep.ticking].boosterStep < MaxBoosterStep
         /\ processSessionTickResume(sweep.ticking, newCandles, out, throwAt)
  /\ sweep' = [sweep EXCEPT !.pc = "await", !.ticking = 0]
  /\ UNCHANGED <<device, rng, rate, store, refresh, queue>>

\* sendCommand and updateDeviceSession have settled: the next iteration.
SweepSettled ==
  /\ sweep.pc = "await"
  /\ sweep' = [sweep EXCEPT !.pc = "loop", !.i = @ + 1]
  /\ UNCHANGED <<now, heap, sessions, inflight, nextObj, ticks, last, device,
                 rng, rate, store, refresh, queue>>

\* After the loop: cleanupExpiredSessions().
SweepCleanup ==
  /\ sweep.pc = "loop"
  /\ sweep.i > Len(sweep.list)
  /\ cleanupExpiredSessions
  /\ sweep' = NoSweep
  /\ UNCHANGED <<device, rng, rate, store, refresh, queue>>

NextSweep ==
  \/ CreateSession
  \/ EndSession
  \/ Advance
  \/ SweepStart
  \/ SweepIterate
  \/ SweepTickReturns
  \/ SweepSettled
  \/ SweepCleanup

SpecSweep == Init /\ [][NextSweep]_vars

\* ---- state-store.ts: refreshStateSnapshot, listeners ----

REFRESH_THROTTLE_MS == 750

MaxBuilds == 3

\* The clock values of the refreshes: builds that take less and more than
\* the throttle interval.
RefreshTimes ==
  {StartNow + 100, StartNow + 100 + REFRESH_THROTTLE_MS - 1,
   StartNow + 100 + REFRESH_THROTTLE_MS}

\* Mutant: one throwing listener ends the loop.
notifyListenersAborts(rf, snapshot) ==
  LET q     == rf.listeners
      stops == {i \in DOMAIN q : q[i] \in ThrowingListeners}
      upTo  == IF stops = {} THEN Len(q)
               ELSE CHOOSE i \in stops : \A j \in stops : i <= j
      called == {q[i] : i \in 1..upTo}
  IN  [rf EXCEPT !.delivered =
         [l \in Listeners |-> IF l \in called THEN @[l] + 1 ELSE @[l]]]

\* for (const listener of store.listeners) try { listener(snapshot) } catch
notifyListeners(rf, snapshot) ==
  LET called == {rf.listeners[i] : i \in DOMAIN rf.listeners}
  IN  [rf EXCEPT !.delivered =
         [l \in Listeners |-> IF l \in called THEN @[l] + 1 ELSE @[l]]]

\* applySnapshot with its notifications: the store as applySnapshot leaves
\* it, and the listeners called when the content hash differs.
applySnapshotNotify(rf, snapshot) ==
  /\ applySnapshot(snapshot)
  /\ refresh' = IF stableSnapshotHash(store.snapshot) = stableSnapshotHash(snapshot)
                THEN rf
                ELSE notifyListeners(rf, snapshot)

\* if (store.refreshPromise && !force) return store.refreshPromise
JoinsInFlight(force) == refresh.refreshPromise # 0 /\ ~force

\* refreshStateSnapshot(source, force) up to its await: throttled, joined to
\* the promise in flight, or a build started and stored as refreshPromise.
refreshStateSnapshotCall(force) ==
  LET answered(kind, b) ==
        [refresh EXCEPT !.result = [kind |-> kind, force |-> force, build |-> b]]
  IN  refresh' =
        IF ~force /\ now - refresh.lastRefreshAt < REFRESH_THROTTLE_MS
        THEN answered("snapshot", 0)
        ELSE IF JoinsInFlight(force)
        THEN answered("joined", refresh.refreshPromise)
        ELSE [answered("started", refresh.nextBuild) EXCEPT
                !.builds = @ \cup {[id |-> refresh.nextBuild, force |-> force,
                                    startedAt |-> now]},
                !.refreshPromise = refresh.nextBuild,
                !.nextBuild = @ + 1]

RefreshCall ==
  /\ refresh.nextBuild <= MaxBuilds
  /\ \E force \in BOOLEAN : refreshStateSnapshotCall(force)
  /\ UNCHANGED <<now, heap, sessions, inflight, nextObj, ticks, last, device,
                 rng, rate, store, sweep, queue>>

\* The Firestore reads of a build resolve: lastRefreshAt = Date.now(), the
\* snapshot built (updatedAt: the build's start) is applied, and the call
\* that started the build sets refreshPromise to null.
BuildResolves ==
  /\ \E b \in refresh.builds, content \in SnapshotContents :
       applySnapshotNotify(
         [refresh EXCEPT !.builds = @ \ {b}, !.lastRefreshAt = now,
                         !.refreshPromise = 0],
         [content |-> content,
          source |-> IF b.force THEN "device_tick" ELSE "device_status_get",
          updatedAt |-> b.startedAt])
  /\ UNCHANGED <<now, heap, sessions, inflight, nextObj, ticks, last, device,
                 rng, rate, sweep, queue>>

\* The reads reject: the call that started the build sets refreshPromise to
\* null and throws.
BuildRejects ==
  /\ \E b \in refresh.builds :
       refresh' = [refresh EXCEPT !.builds = @ \ {b}, !.refreshPromise = 0]
  /\ UNCHANGED <<now, heap, sessions, inflight, nextObj, ticks, last, device,
                 rng, rate, store, sweep, queue>>

RefreshElapse ==
  /\ \E t \in RefreshTimes : t > now /\ now' = t
  /\ UNCHANGED <<heap, sessions, inflight, nextObj, ticks, last, device,
                 libVars>>

NextRefresh ==
  \/ RefreshCall
  \/ BuildResolves
  \/ BuildRejects
  \/ RefreshElapse

SpecRefresh == Init /\ [][NextRefresh]_vars

\* ---- state-store.ts: subscribeStateSnapshot ----

\* store.listeners.add(listener)
Subscribe ==
  /\ \E l \in Listeners :
       /\ \A i \in DOMAIN refresh.listeners : refresh.listeners[i] # l
       /\ refresh' = [refresh EXCEPT !.listeners = Append(@, l)]
  /\ UNCHANGED <<now, heap, sessions, inflight, nextObj, ticks, last, device,
                 rng, rate, store, sweep, queue>>

\* The function subscribeStateSnapshot returned is called:
\* store.listeners.delete(listener)
Unsubscribe ==
  /\ \E i \in DOMAIN refresh.listeners :
       refresh' = [refresh EXCEPT !.listeners =
                     SubSeq(@, 1, i - 1) \o SubSeq(@, i + 1, Len(@))]
  /\ UNCHANGED <<now, heap, sessions, inflight, nextObj, ticks, last, device,
                 rng, rate, store, sweep, queue>>

\* A snapshot is applied while listeners are subscribed.
ApplyNotify ==
  /\ store.applied < MaxApplies
  /\ \E content \in SnapshotContents, source \in SnapshotSources :
       applySnapshotNotify(refresh, [content |-> content, source |-> source,
                                     updatedAt |-> now])
  /\ UNCHANGED <<now, heap, sessions, inflight, nextObj, ticks, last, device,
                 rng, rate, sweep, queue>>

NextListeners ==
  \/ Subscribe
  \/ Unsubscribe
  \/ ApplyNotify
  \/ PersistTimerFires
  \/ PersistResolves
  \/ PersistRejects

SpecListeners == Init /\ [][NextListeners]_vars

\* ---- POST /api/queue/process ----

MaxProcs == 3

\* displayDuration of a queue item.
DisplayDuration == 600000

\* The clock values of the process requests: the first item's expiresAt and
\* the millisecond after it.
ProcessTimes == {StartNow + DisplayDuration, StartNow + DisplayDuration + 1}

\* isExpired = current?.expiresAt ? expiresAt.toMillis() < now
\*                                : !current?.queueItemId
isExpired(current, t) ==
  IF current.expiresAt # 0 THEN current.expiresAt < t
  ELSE current.queueItemId = "null"

\* if (!isExpired && current?.queueItemId) return 'Current token not expired'
Skips(current, t) == ~isExpired(current, t) /\ current.queueItemId # "null"

\* A queue item is added to the collection (the last write of a queue add
\* request).
ItemQueued ==
  /\ \E item \in QueueItems \ queue.added :
       queue' = [queue EXCEPT !.items = Append(@, item),
                              !.added = @ \cup {item}]
  /\ UNCHANGED <<now, heap, sessions, inflight, nextObj, ticks, last, device,
                 rng, rate, store, sweep, refresh>>

Replace(procs, call, next) == (procs \ {call}) \cup {next}

\* The request arrives and awaits getCurrentToken().
ProcessCall ==
  /\ queue.nextProc <= MaxProcs
  /\ queue' = [queue EXCEPT
                 !.procs = @ \cup {[id |-> queue.nextProc, pc |-> "current",
                                    current |-> NoCurrent, now |-> 0,
                                    nextItem |-> "null"]},
                 !.nextProc = @ + 1]
  /\ UNCHANGED <<now, heap, sessions, inflight, nextObj, ticks, last, device,
                 rng, rate, store, sweep, refresh>>

\* getCurrentToken() resolves: now = Date.now(), and the request returns
\* when the current item has not expired, else awaits getNextQueueItem().
ProcessReadsCurrent ==
  /\ \E call \in queue.procs :
       /\ call.pc = "current"
       /\ queue' = [queue EXCEPT !.procs =
            IF Skips(queue.current, now) THEN @ \ {call}
            ELSE Replace(@, call, [call EXCEPT !.pc = "next",
                                               !.current = queue.current,
                                               !.now = now])]
  /\ UNCHANGED <<now, heap, sessions, inflight, nextObj, ticks, last, device,
                 rng, rate, store, sweep, refresh>>

\* getNextQueueItem() resolves with the first item by position, or null; a
\* stop of the device session is requested when the current token read is a
\* queue item.
ProcessReadsNext ==
  /\ \E call \in queue.procs :
       /\ call.pc = "next"
       /\ LET nextItem == IF queue.items = <<>> THEN "null" ELSE Head(queue.items)
              stopped  == call.current.queueItemId # "null"
          IN  queue' = [queue EXCEPT
                !.procs = Replace(@, call, [call EXCEPT !.pc = "set",
                                                        !.nextItem = nextItem]),
                !.stops = IF stopped
                          THEN [@ EXCEPT ![call.current.queueItemId] = @ + 1]
                          ELSE @]
  /\ UNCHANGED <<now, heap, sessions, inflight, nextObj, ticks, last, device,
                 rng, rate, store, sweep, refresh>>

\* The stop request has settled: setCurrentToken(nextItem ..) with expiresAt
\* = now + displayDuration, or setCurrentToken(DEFAULT_TOKEN_MINT, null ..)
\* after which the request returns.
ProcessSetsCurrent ==
  /\ \E call \in queue.procs :
       /\ call.pc = "set"
       /\ queue' =
            IF call.nextItem # "null"
            THEN [queue EXCEPT
                    !.current = [queueItemId |-> call.nextItem,
                                 expiresAt |-> call.now + DisplayDuration],
                    !.became = [@ EXCEPT ![call.nextItem] = @ + 1],
                    !.procs = Replace(@, call, [call EXCEPT !.pc = "remove"])]
            ELSE [queue EXCEPT !.current = NoCurrent, !.procs = @ \ {call}]
  /\ UNCHANGED <<now, heap, sessions, inflight, nextObj, ticks, last, device,
                 rng, rate, store, sweep, refresh>>

\* The sequence without its elements equal to e.
RECURSIVE Without(_, _)
Without(q, e) ==
  IF q = <<>> THEN <<>>
  ELSE IF Head(q) = e THEN Without(Tail(q), e)
  ELSE <<Head(q)>> \o Without(Tail(q), e)

\* removeFromQueue(nextItem.id)
ProcessRemoves ==
  /\ \E call \in queue.procs :
       /\ call.pc = "remove"
       /\ queue' = [queue EXCEPT
                      !.items = Without(@, call.nextItem),
                      !.procs = Replace(@, call, [call EXCEPT !.pc = "start"])]
  /\ UNCHANGED <<now, heap, sessions, inflight, nextObj, ticks, last, device,
                 rng, rate, store, sweep, refresh>>

\* The device session start is requested, and the request returns.
ProcessStarts ==
  /\ \E call \in queue.procs :
       /\ call.pc = "start"
       /\ queue' = [queue EXCEPT
                      !.starts = [@ EXCEPT ![call.nextItem] = @ + 1],
                      !.procs = @ \ {call}]
  /\ UNCHANGED <<now, heap, sessions, inflight, nextObj, ticks, last, device,
                 rng, rate, store, sweep, refresh>>

ProcessElapse ==
  /\ \E t \in ProcessTimes : t > now /\ now' = t
  /\ UNCHANGED <<heap, sessions, inflight, nextObj, ticks, last, device,
                 libVars>>

NextProcess ==
  \/ ItemQueued
  \/ ProcessCall
  \/ ProcessReadsCurrent
  \/ ProcessReadsNext
  \/ ProcessSetsCurrent
  \/ ProcessRemoves
  \/ ProcessStarts
  \/ ProcessElapse

SpecProcess == Init /\ [][NextProcess]_vars

\* ---- POST /api/queue/add: the payment signature ----

MaxAdds == 3

\* The transaction log read by isSignatureUsed and written by
\* logTransactionAdmin: a signature is used once a transaction with it is
\* logged.
isSignatureUsed(signature) == signature \in queue.logged

\* The request arrives with a signature and awaits isSignatureUsed.
AddCall ==
  /\ queue.nextAdd <= MaxAdds
  /\ \E signature \in Signatures :
       queue' = [queue EXCEPT
                   !.adds = @ \cup {[id |-> queue.nextAdd, pc |-> "used",
                                     signature |-> signature]},
                   !.nextAdd = @ + 1]
  /\ UNCHANGED <<now, heap, sessions, inflight, nextObj, ticks, last, device,
                 rng, rate, store, sweep, refresh>>

\* isSignatureUsed resolves: a used signature is answered 'Transaction
\* signature already used', else the payment is verified and the cooldown
\* checked, and the request awaits logTransactionAdmin.
AddChecksSignature ==
  /\ \E call \in queue.adds :
       /\ call.pc = "used"
       /\ queue' =
            IF isSignatureUsed(call.signature)
            THEN [queue EXCEPT
                    !.adds = @ \ {call},
                    !.answer = [signature |-> call.signature,
                                error |-> "Transaction signature already used"]]
            ELSE [queue EXCEPT
                    !.adds = Replace(@, call, [call EXCEPT !.pc = "log"])]
  /\ UNCHANGED <<now, heap, sessions, inflight, nextObj, ticks, last, device,
                 rng, rate, store, sweep, refresh>>

\* logTransactionAdmin(.., signature, .., true) resolves, and the request
\* reads the current token and awaits addToQueueAdmin.
AddLogsTransaction ==
  /\ \E call \in queue.adds :
       /\ call.pc = "log"
       /\ queue' = [queue EXCEPT
                      !.logged = @ \cup {call.signature},
                      !.adds = Replace(@, call, [call EXCEPT !.pc = "add"])]
  /\ UNCHANGED <<now, heap, sessions, inflight, nextObj, ticks, last, device,
                 rng, rate, store, sweep, refresh>>

\* addToQueueAdmin(.., signature, ..) resolves and the request succeeds.
AddQueuesItem ==
  /\ \E call \in queue.adds :
       /\ call.pc = "add"
       /\ queue' = [queue EXCEPT
                      !.queued = [@ EXCEPT ![call.signature] = @ + 1],
                      !.adds = @ \ {call},
                      !.answer = [signature |-> call.signature,
                                  error |-> "none"]]
  /\ UNCHANGED <<now, heap, sessions, inflight, nextObj, ticks, last, device,
                 rng, rate, store, sweep, refresh>>

NextAdd ==
  \/ AddCall
  \/ AddChecksSignature
  \/ AddLogsTransaction
  \/ AddQueuesItem

SpecAdd == Init /\ [][NextAdd]_vars

(***************************************************************************)
(* Properties                                                              *)
(***************************************************************************)
InRange(v) == v >= 0 /\ v <= 100

Dist(a, b) == IF a >= b THEN a - b ELSE b - a

\* The session the last call was about, while the table still holds it.
LastInTable == last.sid \in DOMAIN sessions

LastSession == heap[sessions[last.sid]]

\* C1: a tick called on a session of the table at or after its endTime
\* returns exactly the stop command {0, 50, 50} and clears isActive; it
\* starts no fetch and changes no other field of the session.
C1_ExpiredTickStops ==
  [][\A sid \in CallerIds :
       (/\ processSessionTickCall(sid)
        /\ sid \in DOMAIN sessions
        /\ now >= heap[sessions[sid]].endTime)
       => /\ last'.kind = "stop"
          /\ last'.cmd = [speed |-> 0, minY |-> 50, maxY |-> 50]
          /\ heap' = [heap EXCEPT ![sessions[sid]].isActive = FALSE]
          /\ inflight' = inflight
          /\ ticks' = ticks]_vars

C1_Witness ==
  /\ last.op = "tickCall" /\ last.kind = "stop"
  /\ LastInTable
  /\ now >= LastSession.endTime
  /\ ~LastSession.isActive

\* C2: every command a tick returns (stop, pipeline, fallback) has speed,
\* minY and maxY within [0,100].
C2_CommandInRange ==
  last.kind \in {"stop", "pipeline", "fallback"}
    => InRange(last.cmd.speed) /\ InRange(last.cmd.minY) /\ InRange(last.cmd.maxY)

C2_Witness ==
  /\ last.kind = "fallback"
  /\ last.cmd.speed = 20
  /\ LastInTable
  /\ LastSession.lastSpeed = 0

\* C3: every session of the table has lastSpeed and lastAmplitude within
\* [0,100].
C3_LastInRange ==
  \A k \in DOMAIN sessions :
    InRange(heap[sessions[k]].lastSpeed) /\ InRange(heap[sessions[k]].lastAmplitude)

C3_Witness ==
  /\ last.op = "tickReturn" /\ last.kind = "pipeline"
  /\ LastInTable
  /\ LastSession.lastSpeed = 100 /\ LastSession.lastAmplitude = 100

\* The rate limit on a successful tick, against the target values given by
\* Target: the step is at most the max-delta, and exactly the max-delta
\* (toward the target) when the target is further away than that.
RateLimitedStep(Target(_)) ==
  \A o \in DOMAIN heap, out \in PipelineOutputs :
    \A newCandles \in FetchResults(ticks + 1) :
      (/\ last'.op = "tickReturn" /\ last'.kind = "pipeline"
       /\ o \in DOMAIN heap'
       /\ processSessionTickResume(o, newCandles, out, 0))
      => LET s0 == heap[o].lastSpeed
             s1 == heap'[o].lastSpeed
             a0 == heap[o].lastAmplitude
             a1 == heap'[o].lastAmplitude
             ts == Target(BoosterStep(heap[o], out).speed)
             ta == Target(BoosterStep(heap[o], out).amplitude)
         IN  /\ Dist(s1, s0) <= MAX_SPEED_DELTA
             /\ Dist(a1, a0) <= MAX_AMPLITUDE_DELTA
             /\ Dist(ts, s0) > MAX_SPEED_DELTA
                  => Dist(s1, s0) = MAX_SPEED_DELTA /\ (s1 > s0 <=> ts > s0)
             /\ Dist(ta, a0) > MAX_AMPLITUDE_DELTA
                  => Dist(a1, a0) = MAX_AMPLITUDE_DELTA /\ (a1 > a0 <=> ta > a0)

Raw(v) == v

\* C4 as claimed: the target is the raw value the mode engine and booster
\* hand to the safety pipeline.
C4_RawRateLimited == [][RateLimitedStep(Raw)]_vars

\* C4, amended: on a successful tick lastSpeed and lastAmplitude move by at
\* most their max-delta, and by exactly the max-delta toward the raw value
\* clamped to [0,100] when that clamped value is further away than the
\* max-delta.
C4_ClampedRateLimited == [][RateLimitedStep(Clamp)]_vars

C4_Witness ==
  /\ ticks = 1
  /\ last.op = "tickReturn" /\ last.kind = "pipeline"
  /\ LastInTable
  /\ LastSession.lastSpeed = 40 + MAX_SPEED_DELTA
  /\ LastSession.lastAmplitude = 25 + MAX_AMPLITUDE_DELTA

\* C5: processSessionTick never throws; it returns null exactly when the
\* session id is not in the table, and a command for a session of the table
\* whichever step throws.
C5_NeverThrows ==
  /\ [](last.kind # "throws")
  /\ [](last.op = "tickReturn"
          => last.kind \in {"pipeline", "fallback"} /\ last.cmd # NoCommand)
  /\ [][\A sid \in CallerIds :
          processSessionTickCall(sid)
          => (last'.kind = "null" <=> sid \notin DOMAIN sessions)]_vars

C5_Witness ==
  /\ last.op = "tickReturn"
  /\ last.threw = FetchCandles
  /\ last.kind = "fallback"

\* C6 as claimed: the fallback command's speed is at most the session's last
\* speed and above zero, with minY = 40 and maxY = 60.
C6_FallbackReduced ==
  (last.kind = "fallback" /\ LastInTable)
    => /\ last.cmd.speed <= LastSession.lastSpeed
       /\ last.cmd.speed > 0
       /\ last.cmd.minY = 40 /\ last.cmd.maxY = 60

\* C6, amended: the fallback command's speed is max(20, lastSpeed - 10): at
\* least 20, equal to lastSpeed - 10 when lastSpeed >= 30, and at most
\* lastSpeed only when lastSpeed >= 20; minY = 40 and maxY = 60.
C6_FallbackFloored ==
  (last.kind = "fallback" /\ LastInTable)
    => LET ls == LastSession.lastSpeed IN
       /\ last.cmd.speed >= 20
       /\ ls >= 30 => last.cmd.speed = ls - 10
       /\ ls < 30 => last.cmd.speed = 20
       /\ ls >= 20 => last.cmd.speed <= ls
       /\ last.cmd.minY = 40 /\ last.cmd.maxY = 60

C6_Witness ==
  /\ last.kind = "fallback"
  /\ LastInTable
  /\ LastSession.lastSpeed = 40
  /\ last.cmd.speed = 30

OldestFirst(buffer) ==
  /\ \A i \in 1 .. Len(buffer) : buffer[i].index = 0
  /\ \A i \in 1 .. Len(buffer) - 1 : buffer[i].tick < buffer[i + 1].tick

\* C8: a candle buffer never holds more than BUFFER_SIZE candles and is
\* ordered oldest first; a step leaves it unchanged, or it is a tick's return
\* that appends the first candle that tick fetched at its end, dropping the
\* front one when the buffer was full.
C8_BufferBounded ==
  /\ [](\A o \in DOMAIN heap :
          /\ Len(heap[o].candleBuffer) <= BUFFER_SIZE
          /\ OldestFirst(heap[o].candleBuffer))
  /\ [][\A o \in DOMAIN heap \cap DOMAIN heap' :
          LET b0 == heap[o].candleBuffer
              b1 == heap'[o].candleBuffer
          IN  \/ b1 = b0
              \/ /\ last'.op = "tickReturn"
                 /\ b1 = (IF Len(b0) < BUFFER_SIZE THEN b0 ELSE Tail(b0))
                           \o <<[tick |-> ticks', index |-> 0]>>]_vars

C8_Witness ==
  \E o \in DOMAIN heap :
    /\ Len(heap[o].candleBuffer) = BUFFER_SIZE
    /\ heap[o].candleBuffer[1].tick = 2
    /\ heap[o].candleBuffer[BUFFER_SIZE].tick = BUFFER_SIZE + 1

\* The sessionStateId a session was created with: its sessionId without the
\* dash and the start time.
StateIdOf(session) ==
  SubSeq(session.sessionId, 1,
         Len(session.sessionId) - 1 - Len(Decimal(session.startTime)))

SameBucket(t1, t2) == t1 \div 60000 = t2 \div 60000

\* C9: sessions created with the same sessionStateId and tokenMint and with
\* start times in the same 60000 ms bucket have the same seed and the same
\* modeParams, whatever else the table holds.
C9_SeedDeterministic ==
  \A o1 \in DOMAIN heap, o2 \in DOMAIN heap :
    (/\ StateIdOf(heap[o1]) = StateIdOf(heap[o2])
     /\ heap[o1].tokenMint = heap[o2].tokenMint
     /\ SameBucket(heap[o1].startTime, heap[o2].startTime))
    => /\ heap[o1].seed = heap[o2].seed
       /\ heap[o1].modeParams = heap[o2].modeParams

C9_Witness ==
  \E o1 \in DOMAIN heap, o2 \in DOMAIN heap :
    /\ heap[o1].startTime # heap[o2].startTime
    /\ SameBucket(heap[o1].startTime, heap[o2].startTime)
    /\ heap[o1].tokenMint = heap[o2].tokenMint
    /\ heap[o1].seed = heap[o2].seed
    /\ heap[o1].modeParams = heap[o2].modeParams

\* C10: isSessionExpired is true exactly when now >= endTime, and endTime
\* is the start time plus ten minutes.
C10_ExpiredIffPastEnd ==
  \A k \in DOMAIN sessions :
    LET session == heap[sessions[k]] IN
    /\ session.endTime = session.startTime + 10 * 60 * 1000
    /\ isSessionExpired(session, now) <=> now >= session.endTime
    /\ isSessionExpired(session, session.endTime)
    /\ ~isSessionExpired(session, session.endTime - 1)

C10_Witness ==
  /\ last.op = "tickCall" /\ last.kind = "stop"
  /\ LastInTable
  /\ now = LastSession.endTime

\* C11: createSession registers, under sessionStateId-startTime, a session
\* with isActive, modeId 1, lastSpeed 40, lastAmplitude 25, boosterStep 0,
\* an empty candleBuffer and endTime = startTime + the session duration, and
\* leaves the other entries of the table as they are, whether or not the
\* token already has an active session.
C11_CreateRegisters ==
  [][\A s \in SessionStateIds, m \in TokenMints, t \in ConfigStartTimes :
       (/\ last'.op = "createSession"
        /\ createSession(s, m, t))
       => LET startTime == IF t = 0 THEN now ELSE t
              id        == s \o <<45>> \o Decimal(startTime)
          IN  /\ id \in DOMAIN sessions'
              /\ heap'[sessions'[id]].sessionId = id
              /\ heap'[sessions'[id]].tokenMint = m
              /\ heap'[sessions'[id]].startTime = startTime
              /\ heap'[sessions'[id]].endTime = startTime + 10 * 60 * 1000
              /\ heap'[sessions'[id]].isActive
              /\ heap'[sessions'[id]].modeId = 1
              /\ heap'[sessions'[id]].lastSpeed = 40
              /\ heap'[sessions'[id]].lastAmplitude = 25
              /\ heap'[sessions'[id]].boosterStep = 0
              /\ heap'[sessions'[id]].candleBuffer = <<>>
              /\ \A k \in DOMAIN sessions \ {id} :
                   k \in DOMAIN sessions' /\ sessions'[k] = sessions[k]]_vars

C11_Witness ==
  /\ last.op = "createSession"
  /\ LastInTable
  /\ \E k \in DOMAIN sessions \ {last.sid} :
       /\ heap[sessions[k]].tokenMint = LastSession.tokenMint
       /\ heap[sessions[k]].isActive
       /\ LastSession.isActive
       /\ sessions[k] < sessions[last.sid]

\* The fields of a session fixed at its creation.
Immutable(session) ==
  <<session.modeParams, session.seed, session.sessionId, session.tokenMint,
    session.startTime, session.endTime>>

\* C12: while a session stays in the table, no step changes its modeParams,
\* seed, sessionId, tokenMint, startTime or endTime.
C12_CreationFieldsFrozen ==
  [][\A k \in DOMAIN sessions \cap DOMAIN sessions' :
       sessions'[k] = sessions[k]
       => Immutable(heap'[sessions'[k]]) = Immutable(heap[sessions[k]])]_vars

C12_Witness ==
  /\ last.op = "getSessionStatus"
  /\ LastInTable
  /\ LastSession.modeId = 5
  /\ LastSession.boosterStep = 1
  /\ ~LastSession.isActive
  /\ LastSession.endTime = LastSession.startTime + 10 * 60 * 1000

\* C16: a call about a session id the table does not hold returns its empty
\* result (getSession undefined, processSessionTick null, endSession
\* nothing, getSessionStatus {exists: false, isActive: false}) and changes
\* neither the table nor any session.
C16_UnknownIdEmpty ==
  [][(/\ last'.op \in {"getSession", "tickCall", "endSession", "getSessionStatus"}
      /\ last'.sid \notin DOMAIN sessions)
     => /\ sessions' = sessions
        /\ heap' = heap
        /\ inflight' = inflight
        /\ last'.op = "getSession"
             => last'.kind = "undefined" /\ last'.found = {}
        /\ last'.op = "tickCall"
             => last'.kind = "null" /\ last'.cmd = NoCommand
        /\ last'.op = "endSession" => last'.kind = "void"
        /\ last'.op = "getSessionStatus"
             => last'.status = [exists |-> FALSE, isActive |-> FALSE]]_vars

C16_Witness ==
  /\ last.op = "getSessionStatus"
  /\ last.sid \notin DOMAIN sessions
  /\ last.status = [exists |-> FALSE, isActive |-> FALSE]
  /\ \E k \in DOMAIN sessions : heap[sessions[k]].isActive

\* C17: cleanupExpiredSessions removes exactly the sessions that are
\* inactive or at or past their endTime, keeps the others unchanged, returns
\* the number removed, and leaves nothing a second call at the same instant
\* would remove.
C17_CleanupExact ==
  [][(/\ last'.op = "cleanup"
      /\ cleanupExpiredSessions)
     => LET gone == {k \in DOMAIN sessions :
                       \/ ~heap[sessions[k]].isActive
                       \/ now >= heap[sessions[k]].endTime}
        IN  /\ DOMAIN sessions' = DOMAIN sessions \ gone
            /\ \A k \in DOMAIN sessions' :
                 /\ sessions'[k] = sessions[k]
                 /\ heap'[sessions'[k]] = heap[sessions[k]]
                 /\ heap'[sessions'[k]].isActive
                 /\ now' < heap'[sessions'[k]].endTime
            /\ last'.count = Cardinality(gone)]_vars

C17_Witness ==
  /\ last.op = "cleanup"
  /\ last.count = 1
  /\ Cardinality(DOMAIN sessions) = 1

\* C18: getSessionStatus reports isActive exactly for a session of the
\* table whose flag is set and whose endTime is still ahead, and
\* getAllActiveSessions returns exactly those sessions.
C18_ActiveIffLive ==
  [][/\ (last'.op = "getSessionStatus" /\ now' = now)
          => (last'.status.isActive
                <=> /\ last'.sid \in DOMAIN sessions
                    /\ heap[sessions[last'.sid]].isActive
                    /\ now < heap[sessions[last'.sid]].endTime)
     /\ (last'.op = "getAllActiveSessions" /\ now' = now)
          => last'.found =
               {o \in DOMAIN heap :
                  \E k \in DOMAIN sessions :
                    /\ sessions[k] = o
                    /\ heap[o].isActive
                    /\ now < heap[o].endTime}]_vars

C18_Witness ==
  /\ last.op = "getSessionStatus"
  /\ LastInTable
  /\ LastSession.isActive
  /\ now >= LastSession.endTime
  /\ last.status.exists
  /\ ~last.status.isActive

\* A successful tick of session object o on the mode engine's output out.
SuccessfulTick(o, out) ==
  /\ last'.op = "tickReturn" /\ last'.kind = "pipeline"
  /\ o \in DOMAIN heap'
  /\ \E newCandles \in FetchResults(ticks + 1) :
       processSessionTickResume(o, newCandles, out, 0)

\* The safety pipeline's result on raw values and the session's previous
\* speed and amplitude: clamped to [0,100], then within the max-delta.
Limited(rawSpeed, rawAmplitude, session) ==
  [speed |-> RateLimit(Clamp(rawSpeed), session.lastSpeed, MAX_SPEED_DELTA),
   amplitude |-> RateLimit(Clamp(rawAmplitude), session.lastAmplitude,
                           MAX_AMPLITUDE_DELTA)]

\* C13: a successful tick whose intensity is below the booster's threshold
\* leaves boosterStep as it was and hands the mode's speed and amplitude
\* unmodified to the safety pipeline, and no step other than a tick's return
\* changes boosterStep: over N such ticks in a row the step does not move.
C13_DormantBooster ==
  [][/\ \A o \in DOMAIN heap, out \in ModeOutputs :
          (out.intensity < BOOSTER_THRESHOLD /\ SuccessfulTick(o, out))
          => /\ heap'[o].boosterStep = heap[o].boosterStep
             /\ heap'[o].lastSpeed =
                  Limited(out.speed, out.amplitude, heap[o]).speed
             /\ heap'[o].lastAmplitude =
                  Limited(out.speed, out.amplitude, heap[o]).amplitude
     /\ ticks' = ticks
          => \A o \in DOMAIN heap \cap DOMAIN heap' :
               heap'[o].boosterStep = heap[o].boosterStep]_vars

C13_Witness ==
  /\ ticks = 2
  /\ last.op = "tickReturn" /\ last.kind = "pipeline"
  /\ LastInTable
  /\ LastSession.boosterStep = 0
  /\ LastSession.modeId = 2
  /\ LastSession.lastSpeed = 0
  /\ Len(LastSession.candleBuffer) = 2

C15_ModeByPriority ==
  [][\A o \in DOMAIN heap, out \in ModeOutputs :
       SuccessfulTick(o, out)
       => heap'[o].modeId =
            IF out.metrics.liqDrop = "over" THEN 5
            ELSE IF out.metrics.accel = "over" THEN 3
            ELSE IF out.metrics.chop = "over" THEN 2
            ELSE IF out.metrics.deviation = "over" THEN 4
            ELSE 1]_vars

C15_Witness ==
  /\ ticks >= 2
  /\ last.op = "tickReturn" /\ last.kind = "pipeline"
  /\ LastInTable
  /\ LastSession.modeId = 5
  /\ LastSession.boosterStep = 0
  /\ LastSession.lastSpeed = 40

\* C19: of ticks suspended together on one session, each one, when it
\* resumes, rate-limits against the lastSpeed and lastAmplitude the session
\* holds at that moment (those the tick resumed before it wrote) and writes
\* its own before any other tick runs: the session after the ticks is the
\* one their resumptions produce one after the other.
C19_TicksSerialized ==
  [][\A o \in DOMAIN heap, out \in PipelineOutputs :
       SuccessfulTick(o, out)
       => LET boosted == applyBooster(out.intensity, out.speed, out.amplitude,
                                      heap[o].boosterStep)
              result  == Limited(boosted.speed, boosted.amplitude, heap[o])
          IN  /\ heap'[o].lastSpeed = result.speed
              /\ heap'[o].lastAmplitude = result.amplitude
              /\ Dist(heap'[o].lastSpeed, heap[o].lastSpeed) <= MAX_SPEED_DELTA
              /\ Dist(heap'[o].lastAmplitude, heap[o].lastAmplitude)
                   <= MAX_AMPLITUDE_DELTA]_vars

C19_Witness ==
  /\ ticks = Concurrent
  /\ InflightTotal(inflight) = 0
  /\ last.op = "tickReturn" /\ last.kind = "pipeline"
  /\ LastInTable
  /\ LastSession.boosterStep = 2
  /\ LastSession.lastSpeed = 100
  /\ LastSession.lastAmplitude = 100

\* C20: device commands are throttled whoever sends them: any two commands
\* put on the wire are at least the throttle interval apart, and a command
\* that came sooner was reported skipped and is never sent.
C20_Throttled ==
  /\ \A i, j \in DOMAIN device.sent :
       i < j => device.sent[j].at - device.sent[i].at >= ThrottleMs
  /\ \A i \in DOMAIN device.sent : device.sent[i].id \notin device.skipped

(***************************************************************************)
(* C21..C30                                                                *)
(***************************************************************************)
\* The table's sessions of a token whose isActive flag is set.
ActiveIds(tokenMint) ==
  {k \in DOMAIN sessions : /\ heap[sessions[k]].tokenMint = tokenMint
                           /\ heap[sessions[k]].isActive}

\* C21: whatever the start, tick and stop requests and the sweeps, the
\* table holds at most one session with isActive = true per token mint.
C21_OneActivePerToken ==
  \A m \in TokenMints : Cardinality(ActiveIds(m)) <= 1

\* A second session of the token was started after its first had ended.
C21_Witness ==
  /\ last.op = "createSession"
  /\ \E k1, k2 \in DOMAIN sessions :
       /\ k1 # k2
       /\ heap[sessions[k1]].tokenMint = heap[sessions[k2]].tokenMint
       /\ ~heap[sessions[k1]].isActive
       /\ heap[sessions[k2]].isActive

\* C22: no outcome of the transmission of a tick's command (sent, failed,
\* thrown, skipped by the throttle) changes a session: the session table and
\* every session's fields are after it what the tick left.
C22_TransportLeavesSessions ==
  [][device' # device => heap' = heap /\ sessions' = sessions]_vars

\* The tick moved the speed to 90 and its command was skipped, or its
\* transmission threw before anything was sent: the session keeps the 90.
C22_Witness ==
  /\ ticks = 1
  /\ last.op = "tickReturn" /\ last.kind = "pipeline" /\ LastInTable
  /\ LastSession.lastSpeed = 90
  /\ device.nextCall > 1
  /\ device.calls = {}
  /\ device.sent = <<>>

\* C23: whatever the seed and the number of calls, next() returns v with
\* 0 <= v < 1, that is a state u = v * 0x7fffffff with 0 <= u < 0x7fffffff,
\* and int(2, 4) computed from it is 2, 3 or 4.
C23_NextBelowOne ==
  rng.draws > 0 => /\ 0 <= rng.seed
                   /\ rng.seed < Mask31
                   /\ IntDraw2to4(rng.seed) \in 2..4

\* The seed that exact arithmetic would take to 0x7fffffff has been drawn
\* from, and generators have been drawn from MaxDraws times.
C23_Witness ==
  /\ rng.draws = 1
  /\ rng.seed = LcgNext(230538014)
  /\ LcgNextExact(230538014) = Mask31

\* C24: a tick whose fetch returns no sample, and in which no step throws,
\* leaves candleBuffer exactly as it was, runs the mode, booster and safety
\* steps and returns the pipeline's command, not the fallback.
C24_EmptyFetchProceeds ==
  [][\A o \in DOMAIN heap, out \in PipelineOutputs :
       (/\ last'.op = "tickReturn" /\ last'.threw = 0
        /\ processSessionTickResume(o, <<>>, out, 0))
       => LET boosted == applyBooster(out.intensity, out.speed, out.amplitude,
                                      heap[o].boosterStep)
              result  == Limited(boosted.speed, boosted.amplitude, heap[o])
          IN  /\ o \in DOMAIN heap'
                   => /\ heap'[o].candleBuffer = heap[o].candleBuffer
                      /\ heap'[o].modeId =
                           selectModeFromMetrics(out.metrics,
                                                 heap[o].modeParams)
                      /\ heap'[o].boosterStep = boosted.newStep
                      /\ heap'[o].lastSpeed = result.speed
                      /\ heap'[o].lastAmplitude = result.amplitude
              /\ last'.kind = "pipeline"
              /\ last'.cmd = createDeviceCommand(result)]_vars

\* The first tick fetched a candle, the second none: the buffer still holds
\* the first tick's candle alone and the second tick returned its command.
C24_Witness ==
  /\ ticks = 2
  /\ last.op = "tickReturn" /\ last.kind = "pipeline" /\ LastInTable
  /\ LastSession.candleBuffer = <<[tick |-> 1, index |-> 0]>>
  /\ LastSession.lastSpeed = 100
  /\ last.cmd.speed = 100

C26_PersistedIsCurrent ==
  (/\ store.persistTimer = NoSnapshot
   /\ store.writes = {}
   /\ ~store.failed
   /\ store.document # NoSnapshot)
  => stableSnapshotHash(store.document) = stableSnapshotHash(store.snapshot)

\* A call of processSessionTick has just returned a command.
Commanded(call) ==
  call.op \in {"tickCall", "tickReturn"} /\ call.cmd # NoCommand

\* C27: two commands returned one after the other for the same session,
\* whether pipeline, fallback or stop commands, have speeds that differ by
\* at most the safety pipeline's max-delta.
C27_CommandsRateLimited ==
  [][(Commanded(last) /\ Commanded(last') /\ last'.sid = last.sid)
     => Dist(last'.cmd.speed, last.cmd.speed) <= MAX_SPEED_DELTA]_vars

\* C27, amended: the speed of a pipeline command is the session's new
\* lastSpeed and differs by at most the max-delta from the lastSpeed before
\* the tick, hence from the speed of a pipeline command returned just before
\* it for the session; fallback and stop commands are not rate-limited.
C27_PipelineCommandsRateLimited ==
  [][/\ \A o \in DOMAIN heap :
          (/\ last'.op = "tickReturn" /\ last'.kind = "pipeline"
           /\ ticks' = ticks + 1
           /\ inflight[o] > 0
           /\ heap[o].sessionId = last'.sid)
          => /\ Dist(last'.cmd.speed, heap[o].lastSpeed) <= MAX_SPEED_DELTA
             /\ o \in DOMAIN heap' => heap'[o].lastSpeed = last'.cmd.speed
     /\ (/\ Commanded(last) /\ last.kind = "pipeline"
         /\ Commanded(last') /\ last'.kind = "pipeline"
         /\ last'.sid = last.sid)
        => Dist(last'.cmd.speed, last.cmd.speed) <= MAX_SPEED_DELTA]_vars

\* Two pipeline commands were returned one after the other (90, then 100),
\* and then the session expired: its stop command follows a speed of 100.
C27_Witness ==
  /\ ticks = Concurrent
  /\ last.op = "tickCall" /\ last.kind = "stop"
  /\ LastInTable
  /\ LastSession.lastSpeed = 100
  /\ LastSession.boosterStep = 2

\* The session the table holds under an id is flagged active.
ActiveAt(tbl, h, sid) == sid \in DOMAIN tbl /\ h[tbl[sid]].isActive

\* C28: the lifecycle is one-way.  No session object goes from inactive to
\* active; an id of the table whose session is inactive holds an active one
\* again, and an id absent from the table is in it again, only by a
\* createSession that yields this id (same sessionStateId and startTime);
\* an id leaves the table only by cleanupExpiredSessions, and only when its
\* session is inactive or expired.
C28_LifecycleOneWay ==
  [][/\ \A o \in DOMAIN heap \cap DOMAIN heap' :
          ~heap[o].isActive => ~heap'[o].isActive
     /\ \A sid \in DOMAIN sessions' :
          (~ActiveAt(sessions, heap, sid) /\ ActiveAt(sessions', heap', sid))
          => /\ last'.op = "createSession" /\ last'.sid = sid
             /\ \E s \in SessionStateIds :
                  sid = SessionIdOf(s, heap'[sessions'[sid]].startTime)
             /\ sid \in DOMAIN sessions => sessions'[sid] # sessions[sid]
     /\ \A sid \in DOMAIN sessions' \ DOMAIN sessions :
          last'.op = "createSession" /\ last'.sid = sid
     /\ \A sid \in DOMAIN sessions \ DOMAIN sessions' :
          /\ last'.op = "cleanup"
          /\ \/ ~heap[sessions[sid]].isActive
             \/ isSessionExpired(heap[sessions[sid]], now)]_vars

\* A session was ended and its id is active again through a second
\* createSession with the same sessionStateId and startTime.
C28_Witness ==
  /\ last.op = "createSession" /\ LastInTable
  /\ nextObj = 3
  /\ DOMAIN sessions = {last.sid}
  /\ LastSession.isActive
  /\ \E o \in DOMAIN heap : o # sessions[last.sid] /\ ~heap[o].isActive

\* The fields a tick may write.
Runtime(session) ==
  <<session.lastSpeed, session.lastAmplitude, session.modeId,
    session.boosterStep, session.candleBuffer>>

\* C29: a session whose isActive is false is never advanced: no step, a
\* tick called after endSession or in flight when it ran included, changes
\* its lastSpeed, lastAmplitude, modeId, boosterStep or candleBuffer, and a
\* tick on it returns no command with a speed above 0.
C29_DeadNeverAdvanced ==
  [][\A o \in DOMAIN heap :
       ~heap[o].isActive
       => /\ o \in DOMAIN heap' => Runtime(heap'[o]) = Runtime(heap[o])
          /\ (/\ last'.op = "tickReturn"
              /\ ticks' = ticks + 1
              /\ last'.sid = heap[o].sessionId
              /\ inflight[o] > 0)
             => last'.cmd.speed <= 0]_vars

\* C30: getActiveSessionForToken returns a session only if it is alive,
\* that is flagged active and not past its endTime, as getAllActiveSessions
\* and getSessionStatus report it; and a start request is answered with an
\* existing session only if that session is alive.
C30_ActiveForTokenIsAlive ==
  [][(/\ now' = now
      /\ \/ last'.op = "getActiveSessionForToken" /\ last'.kind = "session"
         \/ last'.op = "start" /\ last'.kind = "existing")
     => \A o \in last'.found :
          /\ o \in AllActive
          /\ StatusOf(heap[o].sessionId).isActive]_vars

\* C31: the sweep removes no session from the table that is still flagged
\* active: a session leaves the table only after a stop command was
\* produced for it (by processSessionTick or by the sweep's expiry branch,
\* both of which deactivate it) or after it was ended.
C31_SweepStopsBeforeRemoval ==
  [][\A sid \in DOMAIN sessions \ DOMAIN sessions' :
       ~heap[sessions[sid]].isActive]_vars

\* C32: a tick that returns the catch block's command leaves candleBuffer,
\* modeId, boosterStep, lastSpeed and lastAmplitude as they were before the
\* tick, whichever step threw.
C32_FallbackLeavesSession ==
  [][(last'.op = "tickReturn" /\ last'.kind = "fallback" /\ ticks' = ticks + 1)
     => \A o \in DOMAIN heap \cap DOMAIN heap' :
          Runtime(heap'[o]) = Runtime(heap[o])]_vars

\* C33: checkRateLimit keeps a fixed window per bucket key.  A call before
\* the bucket's resetAt adds one to its count and leaves resetAt as the
\* opening call set it; a call with no bucket, or at or after resetAt, opens
\* a bucket with count 1 and resetAt = now + windowMs and is allowed; and the
\* bucket of any other key is left as it is while its window lasts (and is
\* dropped once its resetAt has passed).
C33_FixedWindow ==
  [][rate'.calls = rate.calls + 1
     => LET k == rate'.key IN
        /\ (k \in DOMAIN rate.buckets /\ now < rate.buckets[k].resetAt)
           => /\ rate'.buckets[k].resetAt = rate.buckets[k].resetAt
              /\ rate'.buckets[k].count = rate.buckets[k].count + 1
        /\ (k \notin DOMAIN rate.buckets \/ now >= rate.buckets[k].resetAt)
           => /\ rate'.buckets[k].count = 1
              /\ rate'.result.allowed
              /\ \E windowMs \in RateWindows :
                   rate'.buckets[k].resetAt = now + windowMs
        /\ \A j \in DOMAIN rate.buckets \ {k} :
             IF now < rate.buckets[j].resetAt
             THEN j \in DOMAIN rate'.buckets /\ rate'.buckets[j] = rate.buckets[j]
             ELSE j \notin DOMAIN rate'.buckets]_vars

\* Two keys have a bucket; the one opened at the start with a window of
\* 60000 ms was called again 1 ms before its resetAt and denied.
C33_Witness ==
  /\ Cardinality(DOMAIN rate.buckets) = 2
  /\ now = StartNow + 59999
  /\ rate.key \in DOMAIN rate.buckets
  /\ rate.buckets[rate.key] = [count |-> 2, resetAt |-> StartNow + 60000]
  /\ ~rate.result.allowed

\* C34: refreshStateSnapshot is throttled and single-flight for non-forced
\* calls: at most one build started by a non-forced call is in flight, a
\* non-forced call that starts a build does so with none stored as
\* refreshPromise and at least 750 ms after the last completed refresh.
C34_SingleFlight ==
  /\ Cardinality({b \in refresh.builds : ~b.force}) <= 1
  /\ (refresh.result.kind = "started" /\ ~refresh.result.force)
       => refresh.refreshPromise \in {0, refresh.result.build}

\* C36: the in-memory snapshot never goes back in time: no step lowers its
\* updatedAt, whatever the order in which concurrent builds complete.
C36_UpdatedAtMonotonic ==
  [][store'.snapshot.updatedAt >= store.snapshot.updatedAt]_vars

Subscribed == {refresh.listeners[i] : i \in DOMAIN refresh.listeners}

\* What every applySnapshot does to the listeners: with a different content
\* each subscribed listener is called once, throwing or not, and no other;
\* with an equal content none is, and only source and updatedAt change.  No
\* other step calls a listener.
NotifiesOnChange ==
  /\ store'.applied = store.applied
       => refresh'.delivered = refresh.delivered
  /\ (store'.applied # store.applied
        /\ store'.snapshot.content # store.snapshot.content)
       => \A l \in Listeners :
            refresh'.delivered[l] =
              refresh.delivered[l] + (IF l \in Subscribed THEN 1 ELSE 0)
  /\ (store'.applied # store.applied
        /\ store'.snapshot.content = store.snapshot.content)
       => /\ refresh'.delivered = refresh.delivered
          /\ store'.persistTimer = store.persistTimer

C37_ProcessExactlyOnce ==
  [][/\ \A item \in QueueItems :
          /\ queue'.became[item] <= 1
          /\ queue'.starts[item] <= 1
          /\ (item \in queue'.added /\ \A i \in DOMAIN queue'.items : queue'.items[i] # item)
               => queue'.became[item] >= 1
     /\ Skips(queue.current, now)
          => /\ queue'.current = queue.current
             /\ queue'.became = queue.became
             /\ queue'.stops = queue.stops
             /\ \A item \in QueueItems :
                  queue'.starts[item] # queue.starts[item]
                    => item = queue.current.queueItemId]_vars

\* C38: a payment signature is accepted into the queue at most once:
\* addToQueueAdmin is reached at most once per signature under every
\* interleaving of add requests, and a request whose signature check runs
\* after the signature was accepted is answered 'Transaction signature
\* already used'.
C38_SignatureOnce ==
  [][/\ \A g \in Signatures : queue'.queued[g] <= 1
     /\ \A call \in queue.adds \ queue'.adds :
          (call.pc = "used" /\ queue.queued[call.signature] >= 1)
          => queue'.answer = [signature |-> call.signature,
                              error |-> "Transaction signature already used"]]_vars

\* C39: snapshot persistence is debounced: the delay of the timer is within
\* [500, 2000] ms whatever the setting, and the write of a timer that fires
\* carries the last snapshot applied before it fired, that is the last of
\* the burst that scheduled and rescheduled it.
C39_DebouncedWriteIsLast ==
  [][/\ \A setting \in DebounceSettings :
          persistDebounceMs(setting) \in 500..2000
     /\ (store.persistTimer # NoSnapshot /\ store'.persistTimer = NoSnapshot)
          => /\ store'.writes = store.writes \cup {store.persistTimer}
             /\ stableSnapshotHash(store.persistTimer)
                  = stableSnapshotHash(store.snapshot)]_vars

====
